---- MODULE Spec2Model ----
(***************************************************************************)
(* Model of the radio propagation engine (src/src/utils/ituCalculations.ts *)
(* and src/src/utils/geo.ts).                                              *)
(*                                                                         *)
(* Number representation.  The engine works on IEEE doubles; the model     *)
(* works on fixed-point integers:                                          *)
(*   - dB, dBm, dBi, metres-of-height, fractions: thousandths ("milli")    *)
(*   - distances: metres, i.e. thousandths of the code's distKm            *)
(*   - frequencies: whole MHz                                              *)
(*   - latitudes: units of 1e-4 degree                                     *)
(* Math.log10, Math.pow, Math.exp and Math.sqrt are computed by integer    *)
(* algorithms (binary logarithm by repeated squaring, binary exponential   *)
(* by a table of roots of two, Newton square root); mantissas carry 14     *)
(* fractional bits and logarithms 12.                                      *)
(***************************************************************************)
EXTENDS Integers, Sequences, FiniteSets, TLC

\* ------------------------------------------------------------------------
\* Elementary arithmetic
\* ------------------------------------------------------------------------

Max(a, b) == IF a >= b THEN a ELSE b

Min(a, b) == IF a <= b THEN a ELSE b

Abs(a) == IF a < 0 THEN -a ELSE a

\* Math.round on a value given in thousandths: nearest integer, halves go up
\* (Math.round(-0.5) is -0, Math.round(2.5) is 3).
MathRound(xm) == (xm + 500) \div 1000

\* Rounded multiplication of two milli values, result in milli.
MulM(am, bm) == (am * bm) \div 1000

RECURSIVE SqrtIter(_, _)
SqrtIter(n, x) ==
    LET y == (x + n \div x) \div 2
    IN  IF y >= x THEN x ELSE SqrtIter(n, y)

\* Math.sqrt on naturals: the integer square root.
MathSqrt(n) == IF n <= 0 THEN 0 ELSE SqrtIter(n, n)

\* ---- binary logarithm -------------------------------------------------

RECURSIVE Log2Up(_, _, _)
Log2Up(num, den, k) ==
    IF num >= 2 * den THEN Log2Up(num, 2 * den, k + 1) ELSE <<num, den, k>>

RECURSIVE Log2Down(_, _, _)
Log2Down(num, den, k) ==
    IF num < den THEN Log2Down(2 * num, den, k - 1) ELSE <<num, den, k>>

RECURSIVE Shrink(_, _)
Shrink(num, den) ==
    IF num >= 65536 THEN Shrink(num \div 2, den \div 2) ELSE <<num, den>>

RECURSIVE Log2Frac(_, _, _)
Log2Frac(y, i, acc) ==
    IF i > 12 THEN acc
    ELSE LET y2 == (y * y) \div 16384
         IN  IF y2 >= 32768
             THEN Log2Frac(y2 \div 2, i + 1, acc + 2 ^ (12 - i))
             ELSE Log2Frac(y2, i + 1, acc)

\* log2(num/den) in units of 1/4096, for num, den > 0.
Log2Q(num, den) ==
    LET n1 == IF num >= den THEN Log2Up(num, den, 0) ELSE Log2Down(num, den, 0)
        s  == Shrink(n1[1], n1[2])
        y  == (s[1] * 16384) \div s[2]
    IN  n1[3] * 4096 + Log2Frac(y, 1, 0)

\* Math.log10(num/den) in thousandths, for num, den > 0.
MathLog10(num, den) == (Log2Q(num, den) * 7349 + 50000) \div 100000

\* ---- binary exponential -----------------------------------------------

\* round(2^(2^-i) * 16384) for i = 1..12
RootsOfTwo ==
    <<23170, 19484, 17867, 17109, 16743, 16562,
      16473, 16428, 16406, 16395, 16390, 16387>>

RECURSIVE Exp2Frac(_, _, _)
Exp2Frac(f, i, acc) ==
    IF i > 12 THEN acc
    ELSE LET bit == (f \div (2 ^ (12 - i))) % 2
         IN  Exp2Frac(f, i + 1,
                      IF bit = 1 THEN (acc * RootsOfTwo[i]) \div 16384
                      ELSE acc)

\* 2^(e / 4096) in thousandths.
Exp2M(e) ==
    LET k    == e \div 4096
        f    == e % 4096
        mant == Exp2Frac(f, 1, 16384)
    IN  IF k >= 0
        THEN IF k > 9 THEN ((mant * 125) \div 2048) * (2 ^ k)
             ELSE (mant * 125 * (2 ^ k)) \div 2048
        ELSE IF -k > 19 THEN 0
             ELSE (mant * 125) \div (2048 * (2 ^ (-k)))

\* Math.pow(10, x) for x in thousandths, result in thousandths.
MathPow10(xm) == Exp2M((xm * 13607) \div 1000)

\* Math.exp(x) for x in thousandths, result in thousandths.
MathExp(xm) == Exp2M((xm * 5909) \div 1000)

\* ------------------------------------------------------------------------
\* src/src/utils/geo.ts
\* ------------------------------------------------------------------------

\* haversineKm for two points on one meridian (dLng = 0), where
\* 2 R asin(sqrt(sin^2(dLat/2))) = R |dLat|: 1e-4 degree is 11.1195 m.
\* Positions are [lat, lng] in 1e-4 degree; the result is in metres.
haversineKm(a, b) == (Abs(b.lat - a.lat) * 111195) \div 10000

\* ------------------------------------------------------------------------
\* src/src/utils/ituCalculations.ts: loss functions
\* ------------------------------------------------------------------------

\* Free-space path loss, milli-dB.
fspl(distKm, freqMhz) ==
    IF distKm <= 0 \/ freqMhz <= 0 THEN 0
    ELSE 20 * MathLog10(distKm, 1000) + 20 * MathLog10(freqMhz, 1) + 32440

\* Knife-edge diffraction loss (milli-dB) from nu (thousandths).
knifeEdgeDiffraction(nu) ==
    IF nu < -1000 THEN 0
    ELSE IF nu < 0 THEN -20 * MathLog10(500 - ((620 * nu) \div 1000), 1000)
    ELSE IF nu < 1000
         THEN -20 * MathLog10(MathExp((-950 * nu) \div 1000) \div 2, 1000)
    ELSE IF nu < 2400
         THEN LET a     == 3800 - nu
                  inner == 11840000 - a * a
              IN  -20 * MathLog10(4000 - MathSqrt(Max(0, inner)), 10000)
    ELSE -20 * MathLog10(225, nu)

\* "hasObstacle": both optional obstacle fields are defined.
HasObstacleFields(terrain) ==
    /\ "obstaclePeakElevM" \in DOMAIN terrain
    /\ "obstacleDistFromTxKm" \in DOMAIN terrain

\* First Fresnel radius r1 = sqrt(lambda d1m d2m / (d1m + d2m)), in cm,
\* with lambda = 300 / freqMhz; not below the 1 cm resolution.
FresnelRadius(distKm, freqMhz, d1) ==
    LET d2 == distKm - d1
        x  == (d1 * d2) \div (d1 + d2)
    IN  Max(1, MathSqrt(((x * 300000) \div freqMhz) * 10))

\* Line-of-sight height (mm) above the obstacle position.
LosAtObstacle(distKm, terrain) ==
    LET d1     == terrain.obstacleDistFromTxKm
        txElev == terrain.elevationTxM + terrain.antennaHeightTxM
        rxElev == terrain.elevationRxM + terrain.antennaHeightRxM
    IN  txElev + ((rxElev - txElev) * ((d1 * 1000) \div distKm)) \div 1000

\* Mutant: an obstacle at the receiver (d2 = 0) counted as on the path.
fresnelParameter_EndInclusive(distKm, freqMhz, terrain) ==
    IF ~HasObstacleFields(terrain) THEN -2000
    ELSE LET d1 == terrain.obstacleDistFromTxKm
             d2 == distKm - d1
         IN  IF d1 <= 0 \/ d2 < 0 THEN -2000
             ELSE LET h == terrain.obstaclePeakElevM
                           - LosAtObstacle(distKm, terrain)
                  IN  (h * 1414) \div (FresnelRadius(distKm, freqMhz, d1) * 10)

\* Fresnel-Kirchhoff parameter nu, thousandths; sqrt(2 (d1m+d2m) / (lambda
\* d1m d2m)) is sqrt(2) / r1.
fresnelParameter(distKm, freqMhz, terrain) ==
    IF ~HasObstacleFields(terrain) THEN -2000
    ELSE LET d1 == terrain.obstacleDistFromTxKm
             d2 == distKm - d1
         IN  IF d1 <= 0 \/ d2 <= 0 THEN -2000
             ELSE LET h == terrain.obstaclePeakElevM
                           - LosAtObstacle(distKm, terrain)
                  IN  (h * 1414) \div (FresnelRadius(distKm, freqMhz, d1) * 10)

calcDiffractionLoss(distKm, freqMhz, terrain) ==
    Max(0, knifeEdgeDiffraction(fresnelParameter(distKm, freqMhz, terrain)))

\* Mutant: the fraction not limited to 1.0 from above.
fresnelClearance_NoUpperClamp(distKm, freqMhz, terrain) ==
    IF ~HasObstacleFields(terrain) THEN 1000
    ELSE LET d1 == terrain.obstacleDistFromTxKm
             d2 == distKm - d1
         IN  IF d1 <= 0 \/ d2 <= 0 THEN 1000
             ELSE LET clearanceM == LosAtObstacle(distKm, terrain)
                                    - terrain.obstaclePeakElevM
                      r1 == FresnelRadius(distKm, freqMhz, d1)
                  IN  Max(0, (clearanceM * 100) \div r1 + 1000)

\* Unobstructed fraction of the first Fresnel zone, thousandths.
fresnelClearance(distKm, freqMhz, terrain) ==
    IF ~HasObstacleFields(terrain) THEN 1000
    ELSE LET d1 == terrain.obstacleDistFromTxKm
             d2 == distKm - d1
         IN  IF d1 <= 0 \/ d2 <= 0 THEN 1000
             ELSE LET clearanceM == LosAtObstacle(distKm, terrain)
                                    - terrain.obstaclePeakElevM
                      r1 == FresnelRadius(distKm, freqMhz, d1)
                  IN  Min(1000, Max(0, (clearanceM * 100) \div r1 + 1000))

\* Specific gas attenuation, micro-dB/km.
specificGasAttenuation(freqMhz) ==
    IF freqMhz < 100 THEN 0
    ELSE LET gammaO2 ==
                 IF freqMhz < 50000 THEN 7190
                 ELSE IF freqMhz < 57000
                      THEN 7190 + ((freqMhz - 50000) * 14500) \div 7
                 ELSE IF freqMhz < 63000 THEN 14500000
                 ELSE IF freqMhz < 100000
                      THEN LET z == freqMhz - 63000
                           IN  14500 * MathExp(-((z * z) \div 100000))
                 ELSE 50000
             gammaH2O ==
                 IF freqMhz < 1000 THEN 0
                 ELSE IF freqMhz < 22000 THEN 1000 + (freqMhz * 170) \div 22
                 ELSE IF freqMhz < 23000 THEN 180000
                 ELSE IF freqMhz < 183000 THEN 50000 + (freqMhz * 100) \div 183
                 ELSE IF freqMhz < 185000 THEN 30000000
                 ELSE 500000
         IN  gammaO2 + gammaH2O

\* Gas absorption along the path, milli-dB.
gasAbsorption(distKm, freqMhz) ==
    LET g == specificGasAttenuation(freqMhz)
    IN  ((g \div 1000) * distKm) \div 1000 + ((g % 1000) * distKm) \div 1000000

\* P.838-3 Table 1: <<f (GHz), k_H * 1e7, alpha_H * 1000>>
RainTable ==
    << <<1, 387, 912>>,        <<2, 1540, 963>>,       <<4, 6500, 1121>>,
       <<6, 17500, 1308>>,     <<7, 30100, 1332>>,     <<8, 45400, 1327>>,
       <<10, 101000, 1276>>,   <<12, 188000, 1217>>,   <<15, 367000, 1154>>,
       <<20, 751000, 1099>>,   <<25, 1240000, 1061>>,  <<30, 1870000, 1021>>,
       <<35, 2630000, 979>>,   <<40, 3500000, 939>>,   <<50, 5360000, 873>>,
       <<60, 7070000, 826>>,   <<80, 10700000, 767>>,  <<100, 14200000, 731>> >>

RECURSIVE RainRow(_, _)
RainRow(freqMhz, i) ==
    IF i < Len(RainTable) /\ freqMhz > RainTable[i][1] * 1000
    THEN RainRow(freqMhz, i + 1) ELSE i

\* Coefficients k (as log10 k, thousandths) and alpha (thousandths),
\* log-linearly interpolated between the tabulated points.
rainCoefficients(freqMhz) ==
    LET n == Len(RainTable)
    IN  IF freqMhz <= RainTable[1][1] * 1000
        THEN [k |-> MathLog10(RainTable[1][2], 10000000), alpha |-> RainTable[1][3]]
        ELSE IF freqMhz >= RainTable[n][1] * 1000
        THEN [k |-> MathLog10(RainTable[n][2], 10000000), alpha |-> RainTable[n][3]]
        ELSE LET i  == RainRow(freqMhz, 2)
                 r0 == RainTable[i - 1]
                 r1 == RainTable[i]
                 l0 == MathLog10(r0[1], 1)
                 l1 == MathLog10(r1[1], 1)
                 t  == ((MathLog10(freqMhz, 1000) - l0) * 1000) \div (l1 - l0)
                 k0 == MathLog10(r0[2], 10000000)
                 k1 == MathLog10(r1[2], 10000000)
             IN  [k     |-> k0 + MulM(t, k1 - k0),
                  alpha |-> r0[3] + MulM(t, r1[3] - r0[3])]

\* Rain attenuation along the path, milli-dB.  rainRateMmH is in whole mm/h;
\* k * R^alpha is evaluated as 10^(log10 k + alpha log10 R).
\* Mutant: only a rain rate of exactly 0 means no rain; a negative rate
\* counts by its magnitude.
rainAttenuation_MagnitudeOfRate(distKm, freqMhz, rainRateMmH) ==
    IF rainRateMmH = 0 \/ freqMhz < 1000 THEN 0
    ELSE LET c      == rainCoefficients(freqMhz)
             gammaR == MathPow10(c.k + MulM(c.alpha,
                                            MathLog10(Abs(rainRateMmH), 1)))
         IN  (gammaR * distKm) \div (1000 + (45 * distKm) \div 1000)

rainAttenuation(distKm, freqMhz, rainRateMmH) ==
    IF rainRateMmH <= 0 \/ freqMhz < 1000 THEN 0
    ELSE LET c      == rainCoefficients(freqMhz)
             gammaR == MathPow10(c.k + MulM(c.alpha, MathLog10(rainRateMmH, 1)))
         IN  (gammaR * distKm) \div (1000 + (45 * distKm) \div 1000)

\* K_l = 0.0671 (fGhz / 10)^1.74, thousandths of dB/km per g/m3.
cloudLiquidAttenuationCoeff(freqMhz) ==
    IF freqMhz < 1000 THEN 0
    ELSE MathPow10(MathLog10(671, 10000) + MulM(1740, MathLog10(freqMhz, 10000)))

\* Cloud and fog attenuation, milli-dB; lwcGm3 in thousandths of g/m3.
cloudFogAttenuation(distKm, freqMhz, lwcGm3) ==
    IF lwcGm3 <= 0 \/ freqMhz < 10000 THEN 0
    ELSE MulM(MulM(cloudLiquidAttenuationCoeff(freqMhz), lwcGm3), distKm)

\* Median clutter loss, milli-dB.
clutterLoss(freqMhz, groundType) ==
    CASE groundType = "SEA"         -> 0
      [] groundType = "COAST"       -> 500
      [] groundType = "OPEN_LAND"   -> 1000
      [] groundType = "FARMLAND"    -> 2000
      [] groundType = "FOREST"      ->
            Min(15000, 5000 + 4 * MathLog10(Max(freqMhz, 30), 30))
      [] groundType = "SUBURBAN"    ->
            6000 + (1500 * MathLog10(Max(freqMhz, 100), 100)) \div 1000
      [] groundType = "URBAN"       ->
            12000 + 2 * MathLog10(Max(freqMhz, 100), 100)
      [] groundType = "DENSE_URBAN" ->
            20000 + 3 * MathLog10(Max(freqMhz, 100), 100)

\* Okumura-Hata path loss, milli-dB; antenna heights in mm.
okumuraHataLoss(distKm, freqMhz, hteTxM, hreRxM, groundType) ==
    IF distKm < 100 \/ freqMhz < 150 \/ freqMhz > 1500
    THEN fspl(distKm, freqMhz)
    ELSE LET d    == Max(distKm, 100)
             hte  == Max(hteTxM, 1000)
             hre  == Max(hreRxM, 500)
             lf   == MathLog10(freqMhz, 1)
             lh   == MathLog10(hte, 1000)
             aHre == MulM(MulM(1100, lf) - 700, hre) - (MulM(1560, lf) - 800)
             Lb   == 69550 + MulM(26160, lf) - MulM(13820, lh) - aHre
                     + MulM(44900 - MulM(6550, lh), MathLog10(d, 1000))
             l28  == MathLog10(freqMhz, 28)
         IN  CASE groundType \in {"DENSE_URBAN", "URBAN"} -> Lb
               [] groundType = "SUBURBAN" -> Lb - 2 * MulM(l28, l28) - 5400
               [] groundType \in {"OPEN_LAND", "FARMLAND"} ->
                     Lb - MulM(4780, MulM(lf, lf)) + MulM(18330, lf) - 40940
               [] OTHER -> Lb - 2 * MulM(l28, l28) - 5400

\* Simplified P.1546 path loss, milli-dB.
\* Mutant: 300 MHz counted in the lower band.
ituP1546Loss_BandEdge(distKm, freqMhz, terrain) ==
    IF freqMhz < 30 \/ freqMhz > 3000 THEN fspl(distKm, freqMhz)
    ELSE LET heff  == terrain.antennaHeightTxM
             n     == IF freqMhz <= 300
                      THEN (IF terrain.type = "FLAT" THEN 30 ELSE 35)
                      ELSE (IF terrain.type = "FLAT" THEN 35 ELSE 40)
             hGain == 20 * MathLog10(Max(heff, 1000), 10000)
             baseLoss == fspl(1000, freqMhz)
         IN  baseLoss + n * MathLog10(Max(distKm, 10), 1000) - hGain

ituP1546Loss(distKm, freqMhz, terrain) ==
    IF freqMhz < 30 \/ freqMhz > 3000 THEN fspl(distKm, freqMhz)
    ELSE LET heff  == terrain.antennaHeightTxM
             n     == IF freqMhz < 300
                      THEN (IF terrain.type = "FLAT" THEN 30 ELSE 35)
                      ELSE (IF terrain.type = "FLAT" THEN 35 ELSE 40)
             hGain == 20 * MathLog10(Max(heff, 1000), 10000)
             baseLoss == fspl(1000, freqMhz)
         IN  baseLoss + n * MathLog10(Max(distKm, 10), 1000) - hGain

\* ------------------------------------------------------------------------
\* Model selection
\* ------------------------------------------------------------------------

\* Mutant: the distance test of the urban case made strict.
selectModel_StrictDist(freqMhz, distKm, terrain) ==
    LET hasObstacle == HasObstacleFields(terrain)
        isUrban == terrain.groundType \in {"URBAN", "DENSE_URBAN", "SUBURBAN"}
    IN  IF hasObstacle /\ freqMhz >= 30 THEN "ITU_P526"
        ELSE IF freqMhz < 30 THEN "FSPL"
        ELSE IF freqMhz <= 1500 /\ isUrban /\ distKm > 1000 THEN "OKUMURA_HATA"
        ELSE IF freqMhz <= 3000 THEN "ITU_P1546"
        ELSE "FSPL"

selectModel(freqMhz, distKm, terrain) ==
    LET hasObstacle == HasObstacleFields(terrain)
        isUrban == \/ terrain.groundType = "URBAN"
                   \/ terrain.groundType = "DENSE_URBAN"
                   \/ terrain.groundType = "SUBURBAN"
    IN  IF hasObstacle /\ freqMhz >= 30 THEN "ITU_P526"
        ELSE IF freqMhz < 30 THEN "FSPL"
        ELSE IF freqMhz <= 1500 /\ isUrban /\ distKm >= 1000 THEN "OKUMURA_HATA"
        ELSE IF freqMhz <= 3000 THEN "ITU_P1546"
        ELSE "FSPL"

\* ------------------------------------------------------------------------
\* Connection quality
\* ------------------------------------------------------------------------

NOISE_FIGURE_DB == 6

\* A double that may be non-finite: kind is "finite", "Infinity",
\* "-Infinity" or "NaN"; v is the value (milli-units) of a finite one.
Finite(v) == [kind |-> "finite", v |-> v]

NonFinite(kind) == [kind |-> kind, v |-> 0]

\* x - n for a finite x.
MinusDouble(x, n) ==
    CASE n.kind = "finite"    -> Finite(x - n.v)
      [] n.kind = "-Infinity" -> NonFinite("Infinity")
      [] n.kind = "Infinity"  -> NonFinite("-Infinity")
      [] OTHER                -> NonFinite("NaN")

\* Thermal noise floor, milli-dBm, for a bandwidth in whole kHz.  The
\* logarithm of zero is -Infinity and of a negative number NaN.
thermalNoise(bandwidthKhz) ==
    LET bwHz == bandwidthKhz * 1000
    IN  IF bwHz > 0
        THEN Finite(-174000 + 10 * MathLog10(bwHz, 1) + NOISE_FIGURE_DB * 1000)
        ELSE IF bwHz = 0 THEN NonFinite("-Infinity") ELSE NonFinite("NaN")

\* Gauss error function (Abramowitz-Stegun), thousandths in and out.
erf(x0) ==
    LET sign == IF x0 >= 0 THEN 1 ELSE -1
        x    == Abs(x0)
        t    == 1000000 \div (1000 + (3276 * x) \div 10000)
        poly == MulM(t, 255 + MulM(t, -284 + MulM(t, 1421
                     + MulM(t, -1453 + MulM(t, 1061)))))
        e    == IF x > 10000 THEN 0 ELSE MathExp(-MulM(x, x))
    IN  sign * (1000 - MulM(poly, e))

\* Mutant: the 'Acceptabel' threshold moved from 40 to 45.
ScoreBand_Shifted(score) ==
    IF score >= 80 THEN [label |-> "Utmarkt", color |-> "#22c55e"]
    ELSE IF score >= 60 THEN [label |-> "God", color |-> "#86efac"]
    ELSE IF score >= 45 THEN [label |-> "Acceptabel", color |-> "#facc15"]
    ELSE IF score >= 20 THEN [label |-> "Svag", color |-> "#f97316"]
    ELSE [label |-> "Otillracklig", color |-> "#ef4444"]

\* The band of a score: label and colour (labels without diacritics:
\* 'Utmärkt' and 'Otillräcklig' in the source).
ScoreBand(score) ==
    IF score >= 80 THEN [label |-> "Utmarkt", color |-> "#22c55e"]
    ELSE IF score >= 60 THEN [label |-> "God", color |-> "#86efac"]
    ELSE IF score >= 40 THEN [label |-> "Acceptabel", color |-> "#facc15"]
    ELSE IF score >= 20 THEN [label |-> "Svag", color |-> "#f97316"]
    ELSE [label |-> "Otillracklig", color |-> "#ef4444"]

\* The four sub-scores, thousandths of a point.

\* Mutant: the margin scored by its magnitude.
marginScore_Magnitude(linkMarginDb) ==
    Min(50000, Max(0, (Abs(linkMarginDb) * 50) \div 30))

marginScore(linkMarginDb) == Min(50000, Max(0, (linkMarginDb * 50) \div 30))

fresnelScore(fresnelClearanceFraction) ==
    Min(20000, Max(0, fresnelClearanceFraction * 20))

weatherScore(rainAttenuationDb, cloudFogAttenuationDb) ==
    LET weatherLoss == rainAttenuationDb + cloudFogAttenuationDb
        weatherReliability ==
            Max(0, 1000 - (weatherLoss * 1000) \div Max(weatherLoss + 10000, 10000))
    IN  weatherReliability * 20

gainScore(txGainDbi, rxGainDbi) ==
    LET totalGain == txGainDbi + rxGainDbi
    IN  Min(10000, Max(0, (totalGain * 10) \div 20))

\* Mutant: the cap on negative margins left out.
CapScore_None(score, linkMarginDb) == score

\* The cap applied to the score of a link with a negative margin.
CapScore(score, linkMarginDb) ==
    IF linkMarginDb < 0
    THEN Min(score, Max(0, 19 + MathRound(linkMarginDb * 2)))
    ELSE score

\* Mutant: the bandwidth passed to thermalNoise as given.
NoiseBandwidth_Unclamped(bandwidthKhz) == bandwidthKhz

\* Math.max(bandwidthKhz, 1)
NoiseBandwidth(bandwidthKhz) == Max(bandwidthKhz, 1)

connectionQuality(params) ==
    LET score0 == MathRound(marginScore(params.linkMarginDb)
                            + fresnelScore(params.fresnelClearanceFraction)
                            + weatherScore(params.rainAttenuationDb,
                                           params.cloudFogAttenuationDb)
                            + gainScore(params.txGainDbi, params.rxGainDbi))
        score  == CapScore(score0, params.linkMarginDb)
        noise  == thermalNoise(NoiseBandwidth(params.bandwidthKhz))
        snrDb  == MinusDouble(params.receivedPowerDbm, noise)
        sigmaFade == 8
        z      == (params.linkMarginDb * 1000) \div (sigmaFade * 1414)
        availability == (1000 + erf(z)) \div 2
        band   == ScoreBand(score)
    IN  [score |-> score, label |-> band.label, color |-> band.color,
         availability |-> availability, snrDb |-> snrDb]

\* ------------------------------------------------------------------------
\* Full ITU link budget
\* ------------------------------------------------------------------------

\* Mutant: the amplitude form of the decibel, 20 log10.
wToDbm_Amplitude(w) == 20 * MathLog10(w, 1)

\* Watts to dBm; the power is given in mW (w * 1000).
wToDbm(w) == 10 * MathLog10(w, 1)

DefaultTerrain ==
    [type |-> "FLAT", groundType |-> "OPEN_LAND", climateZone |-> "TEMPERATE",
     vegetation |-> "NONE", antennaHeightTxM |-> 2000, antennaHeightRxM |-> 2000,
     elevationTxM |-> 0, elevationRxM |-> 0, rainRateMmH |-> 0,
     liquidWaterContentGm3 |-> 0]

\* Mutant: the spread the other way round, { ...terrain, ...defaults }.
MergeTerrain_DefaultsWin(terrain) ==
    [f \in (DOMAIN DefaultTerrain) \cup (DOMAIN terrain) |->
        IF f \in DOMAIN DefaultTerrain THEN DefaultTerrain[f] ELSE terrain[f]]

\* { ...defaults, ...terrain }: a partial profile is a record on a subset of
\* the field names.
MergeTerrain(terrain) ==
    [f \in (DOMAIN DefaultTerrain) \cup (DOMAIN terrain) |->
        IF f \in DOMAIN terrain THEN terrain[f] ELSE DefaultTerrain[f]]

\* Optional arguments are sequences of length 0 (undefined) or 1.
Undefined == << >>

Some(v) == <<v>>

\* Mutant: every absent value defaults to 0.
EquipField_ZeroDefault(equip, field, dflt) ==
    IF equip = Undefined THEN 0 ELSE equip[1][field]

\* equip?.field ?? dflt
EquipField(equip, field, dflt) ==
    IF equip = Undefined THEN dflt ELSE equip[1][field]

\* Mutant: any supplied forceModel is taken, AUTO included.
ChosenModel_KeepAuto(forceModel, freqMhz, distKm, t) ==
    IF forceModel # Undefined
    THEN forceModel[1]
    ELSE selectModel(freqMhz, distKm, t)

\* forceModel && forceModel !== 'AUTO' ? forceModel : selectModel(...)
ChosenModel(forceModel, freqMhz, distKm, t) ==
    IF forceModel # Undefined /\ forceModel[1] # "AUTO"
    THEN forceModel[1]
    ELSE selectModel(freqMhz, distKm, t)

\* Mutant: ITU_P452 computed with the P.1546 estimate instead of falling
\* to the default branch.
BaseLoss_P452AsP1546(model, distKm, freqMhz, t) ==
    CASE model = "OKUMURA_HATA" ->
            okumuraHataLoss(distKm, freqMhz, t.antennaHeightTxM,
                            t.antennaHeightRxM, t.groundType)
      [] model \in {"ITU_P1546", "ITU_P452"} -> ituP1546Loss(distKm, freqMhz, t)
      [] OTHER -> fspl(distKm, freqMhz)

BaseLoss(model, distKm, freqMhz, t) ==
    CASE model = "OKUMURA_HATA" ->
            okumuraHataLoss(distKm, freqMhz, t.antennaHeightTxM,
                            t.antennaHeightRxM, t.groundType)
      [] model = "ITU_P1546" -> ituP1546Loss(distKm, freqMhz, t)
      [] OTHER -> fspl(distKm, freqMhz)

\* Mutant: diffraction computed whatever the model.
DiffractionTerm_Always(model, distKm, freqMhz, t) ==
    calcDiffractionLoss(distKm, freqMhz, t)

DiffractionTerm(model, distKm, freqMhz, t) ==
    IF model = "ITU_P526" THEN calcDiffractionLoss(distKm, freqMhz, t) ELSE 0

\* Mutant: clutter added whatever the model.
ClutterTerm_Always(model, freqMhz, t) == clutterLoss(freqMhz, t.groundType)

ClutterTerm(model, freqMhz, t) ==
    IF model = "OKUMURA_HATA" THEN 0 ELSE clutterLoss(freqMhz, t.groundType)

\* Mutant: the receiver's antenna gain left out.
ReceivedPower_NoRxGain(txPowerDbm, txGainDbi, totalLossDb, rxGainDbi) ==
    txPowerDbm + txGainDbi - totalLossDb

ReceivedPower(txPowerDbm, txGainDbi, totalLossDb, rxGainDbi) ==
    txPowerDbm + txGainDbi - totalLossDb + rxGainDbi

\* Mutant: a margin of zero counted as feasible.
Feasible_NonStrict(linkMarginDb) == linkMarginDb >= 0

Feasible(linkMarginDb) == linkMarginDb > 0

\* Mutant: the legacy terrain loss taken to include the diffraction loss.
calcItuLinkBudget_TerrainWithDiffraction(from, to, link, fromEquip, toEquip, terrain, forceModel) ==
    LET distKm     == haversineKm(from, to)
        freqMhz    == link.frequencyMhz
        t          == MergeTerrain(terrain)
        txPowerDbm == wToDbm(link.txPowerW)
        txGainDbi  == EquipField(fromEquip, "antennaGainDbi", 0)
        rxGainDbi  == EquipField(toEquip, "antennaGainDbi", 0)
        rxSensDbm  == EquipField(toEquip, "rxSensitivityDbm", -110000)
        model      == ChosenModel(forceModel, freqMhz, distKm, t)
        baseLossDb == BaseLoss(model, distKm, freqMhz, t)
        diffractionLossDb == DiffractionTerm(model, distKm, freqMhz, t)
        gasAbsorptionDb   == gasAbsorption(distKm, freqMhz)
        rainAttenuationDb == rainAttenuation(distKm, freqMhz, t.rainRateMmH)
        cloudFogDb == cloudFogAttenuation(distKm, freqMhz, t.liquidWaterContentGm3)
        clutterLossDb == ClutterTerm(model, freqMhz, t)
        totalLossDb == baseLossDb + diffractionLossDb + gasAbsorptionDb
                       + rainAttenuationDb + cloudFogDb + clutterLossDb
        receivedPowerDbm == ReceivedPower(txPowerDbm, txGainDbi, totalLossDb, rxGainDbi)
        linkMarginDb == receivedPowerDbm - rxSensDbm
        fresnelFraction == fresnelClearance(distKm, freqMhz, t)
        quality == connectionQuality(
                      [linkMarginDb |-> linkMarginDb,
                       fresnelClearanceFraction |-> fresnelFraction,
                       txGainDbi |-> txGainDbi,
                       rxGainDbi |-> rxGainDbi,
                       receivedPowerDbm |-> receivedPowerDbm,
                       bandwidthKhz |-> link.bandwidthKhz,
                       rainAttenuationDb |-> rainAttenuationDb,
                       cloudFogAttenuationDb |-> cloudFogDb])
    IN  [txPowerDbm |-> txPowerDbm,
         txGainDbi |-> txGainDbi,
         rxGainDbi |-> rxGainDbi,
         fsplDb |-> baseLossDb,
         terrainLossDb |-> clutterLossDb + diffractionLossDb,
         atmosphericLossDb |-> gasAbsorptionDb + rainAttenuationDb + cloudFogDb,
         receivedPowerDbm |-> receivedPowerDbm,
         rxSensitivityDbm |-> rxSensDbm,
         linkMarginDb |-> linkMarginDb,
         distanceKm |-> distKm,
         feasible |-> Feasible(linkMarginDb),
         model |-> model,
         diffractionLossDb |-> diffractionLossDb,
         rainAttenuationDb |-> rainAttenuationDb,
         cloudFogAttenuationDb |-> cloudFogDb,
         gasAbsorptionDb |-> gasAbsorptionDb,
         clutterLossDb |-> clutterLossDb,
         fresnelClearanceFraction |-> fresnelFraction,
         connectionQuality |-> quality]

calcItuLinkBudget(from, to, link, fromEquip, toEquip, terrain, forceModel) ==
    LET distKm     == haversineKm(from, to)
        freqMhz    == link.frequencyMhz
        t          == MergeTerrain(terrain)
        txPowerDbm == wToDbm(link.txPowerW)
        txGainDbi  == EquipField(fromEquip, "antennaGainDbi", 0)
        rxGainDbi  == EquipField(toEquip, "antennaGainDbi", 0)
        rxSensDbm  == EquipField(toEquip, "rxSensitivityDbm", -110000)
        model      == ChosenModel(forceModel, freqMhz, distKm, t)
        baseLossDb == BaseLoss(model, distKm, freqMhz, t)
        diffractionLossDb == DiffractionTerm(model, distKm, freqMhz, t)
        gasAbsorptionDb   == gasAbsorption(distKm, freqMhz)
        rainAttenuationDb == rainAttenuation(distKm, freqMhz, t.rainRateMmH)
        cloudFogDb == cloudFogAttenuation(distKm, freqMhz, t.liquidWaterContentGm3)
        clutterLossDb == ClutterTerm(model, freqMhz, t)
        totalLossDb == baseLossDb + diffractionLossDb + gasAbsorptionDb
                       + rainAttenuationDb + cloudFogDb + clutterLossDb
        receivedPowerDbm == ReceivedPower(txPowerDbm, txGainDbi, totalLossDb, rxGainDbi)
        linkMarginDb == receivedPowerDbm - rxSensDbm
        fresnelFraction == fresnelClearance(distKm, freqMhz, t)
        quality == connectionQuality(
                      [linkMarginDb |-> linkMarginDb,
                       fresnelClearanceFraction |-> fresnelFraction,
                       txGainDbi |-> txGainDbi,
                       rxGainDbi |-> rxGainDbi,
                       receivedPowerDbm |-> receivedPowerDbm,
                       bandwidthKhz |-> link.bandwidthKhz,
                       rainAttenuationDb |-> rainAttenuationDb,
                       cloudFogAttenuationDb |-> cloudFogDb])
    IN  [txPowerDbm |-> txPowerDbm,
         txGainDbi |-> txGainDbi,
         rxGainDbi |-> rxGainDbi,
         fsplDb |-> baseLossDb,
         terrainLossDb |-> clutterLossDb,
         atmosphericLossDb |-> gasAbsorptionDb + rainAttenuationDb + cloudFogDb,
         receivedPowerDbm |-> receivedPowerDbm,
         rxSensitivityDbm |-> rxSensDbm,
         linkMarginDb |-> linkMarginDb,
         distanceKm |-> distKm,
         feasible |-> Feasible(linkMarginDb),
         model |-> model,
         diffractionLossDb |-> diffractionLossDb,
         rainAttenuationDb |-> rainAttenuationDb,
         cloudFogAttenuationDb |-> cloudFogDb,
         gasAbsorptionDb |-> gasAbsorptionDb,
         clutterLossDb |-> clutterLossDb,
         fresnelClearanceFraction |-> fresnelFraction,
         connectionQuality |-> quality]

\* ------------------------------------------------------------------------
\* src/src/utils/linkBudget.ts: the simple link budget the stores use
\* ------------------------------------------------------------------------

\* Friis free-space path loss, milli-dB.
freespacePathLoss(distKm, freqMhz) ==
    IF distKm <= 0 \/ freqMhz <= 0 THEN 0
    ELSE 20 * MathLog10(distKm, 1000) + 20 * MathLog10(freqMhz, 1) + 32440

\* Math.min(factor * distKm, 30) with factor 0.5, 0.3 or 0.15, milli-dB.
estimateTerrainLoss(distKm, freqMhz) ==
    LET factor == IF freqMhz < 100 THEN 500
                  ELSE IF freqMhz < 1000 THEN 300 ELSE 150
    IN  Min((factor * distKm) \div 1000, 30000)

\* 0.01, 0.05 or 0.2 dB per km, milli-dB.
atmosphericLoss(distKm, freqMhz) ==
    IF freqMhz < 1000 THEN (10 * distKm) \div 1000
    ELSE IF freqMhz < 10000 THEN (50 * distKm) \div 1000
    ELSE (200 * distKm) \div 1000

\* 10 log10(w * 1000); the power is given in mW.
wattToDbm(w) == 10 * MathLog10(w, 1)

calcLinkBudget(from, to, link, fromEquip, toEquip) ==
    LET distKm     == haversineKm(from, to)
        freqMhz    == link.frequencyMhz
        txPowerDbm == wattToDbm(link.txPowerW)
        txGainDbi  == EquipField(fromEquip, "antennaGainDbi", 0)
        rxGainDbi  == EquipField(toEquip, "antennaGainDbi", 0)
        rxSensDbm  == EquipField(toEquip, "rxSensitivityDbm", -110000)
        fsplDb     == freespacePathLoss(distKm, freqMhz)
        terrainLossDb     == estimateTerrainLoss(distKm, freqMhz)
        atmosphericLossDb == atmosphericLoss(distKm, freqMhz)
        receivedPowerDbm  == txPowerDbm + txGainDbi - fsplDb - terrainLossDb
                             - atmosphericLossDb + rxGainDbi
        linkMarginDb == receivedPowerDbm - rxSensDbm
    IN  [txPowerDbm |-> txPowerDbm,
         txGainDbi |-> txGainDbi,
         rxGainDbi |-> rxGainDbi,
         fsplDb |-> fsplDb,
         terrainLossDb |-> terrainLossDb,
         atmosphericLossDb |-> atmosphericLossDb,
         receivedPowerDbm |-> receivedPowerDbm,
         rxSensitivityDbm |-> rxSensDbm,
         linkMarginDb |-> linkMarginDb,
         distanceKm |-> distKm,
         feasible |-> linkMarginDb > 0]

\* ------------------------------------------------------------------------
\* RadioPlanner/Services: GeoService and LinkBudgetService (C#)
\* ------------------------------------------------------------------------

HaversineKm(a, b) == (Abs(b.lat - a.lat) * 111195) \div 10000

FreespacePathLossDb(distKm, freqMhz) ==
    IF distKm <= 0 \/ freqMhz <= 0 THEN 0
    ELSE 20 * MathLog10(distKm, 1000) + 20 * MathLog10(freqMhz, 1) + 32440

EstimateTerrainLoss(distKm, freqMhz) ==
    LET factor == IF freqMhz < 100 THEN 500
                  ELSE IF freqMhz < 1000 THEN 300 ELSE 150
    IN  Min((factor * distKm) \div 1000, 30000)

AtmosphericLoss(distKm, freqMhz) ==
    IF freqMhz < 1000 THEN (10 * distKm) \div 1000
    ELSE IF freqMhz < 10000 THEN (50 * distKm) \div 1000
    ELSE (200 * distKm) \div 1000

WattToDbm(watts) == 10 * MathLog10(watts, 1)

CalcLinkBudget(from, to, link, fromEquip, toEquip) ==
    LET distKm     == HaversineKm(from, to)
        freqMhz    == link.frequencyMhz
        txPowerDbm == WattToDbm(link.txPowerW)
        txGainDbi  == IF fromEquip = Undefined THEN 0
                      ELSE fromEquip[1].antennaGainDbi
        rxGainDbi  == IF toEquip = Undefined THEN 0
                      ELSE toEquip[1].antennaGainDbi
        rxSensDbm  == IF toEquip = Undefined THEN -110000
                      ELSE toEquip[1].rxSensitivityDbm
        fsplDb     == FreespacePathLossDb(distKm, freqMhz)
        terrainLossDb     == EstimateTerrainLoss(distKm, freqMhz)
        atmosphericLossDb == AtmosphericLoss(distKm, freqMhz)
        receivedPowerDbm  == txPowerDbm + txGainDbi - fsplDb - terrainLossDb
                             - atmosphericLossDb + rxGainDbi
        linkMarginDb == receivedPowerDbm - rxSensDbm
    IN  [txPowerDbm |-> txPowerDbm,
         txGainDbi |-> txGainDbi,
         rxGainDbi |-> rxGainDbi,
         fsplDb |-> fsplDb,
         terrainLossDb |-> terrainLossDb,
         atmosphericLossDb |-> atmosphericLossDb,
         receivedPowerDbm |-> receivedPowerDbm,
         rxSensitivityDbm |-> rxSensDbm,
         linkMarginDb |-> linkMarginDb,
         distanceKm |-> distKm,
         feasible |-> linkMarginDb > 0]

\* ------------------------------------------------------------------------
\* src/src/utils/sampleData.ts
\* ------------------------------------------------------------------------

\* The catalogue entries the sample vehicles below carry; gains and
\* sensitivities in thousandths of a dB.
EQUIPMENT_CATALOG ==
    << [id |-> "ra190", antennaGainDbi |-> 3000, rxSensitivityDbm |-> -110000],
       [id |-> "hf3000", antennaGainDbi |-> 0, rxSensitivityDbm |-> -120000],
       [id |-> "satcom1", antennaGainDbi |-> 12000, rxSensitivityDbm |-> -105000] >>

eq(id) ==
    EQUIPMENT_CATALOG[CHOOSE i \in DOMAIN EQUIPMENT_CATALOG :
                          EQUIPMENT_CATALOG[i].id = id]

\* The brigade staff and the signal company of the sample data, each with
\* its one vehicle; all positions are put on the meridian of the staff.
INITIAL_UNITS ==
    << [id |-> "u_stab", shortName |-> "1 BGSTAB",
        position |-> Some([lat |-> 593300, lng |-> 180700]),
        vehicles |->
          << [id |-> "v_stab1", callSign |-> "ALFA 01",
              position |-> Some([lat |-> 593300, lng |-> 180700]),
              equipment |-> << eq("ra190"), eq("hf3000"), eq("satcom1") >>,
              unitId |-> "u_stab"] >>],
       [id |-> "u_signal", shortName |-> "SIGKOMP",
        position |-> Some([lat |-> 593250, lng |-> 180700]),
        vehicles |->
          << [id |-> "v_sig_radio", callSign |-> "DELTA 01",
              position |-> Some([lat |-> 593250, lng |-> 180700]),
              equipment |-> << eq("ra190"), eq("hf3000"), eq("satcom1") >>,
              unitId |-> "u_signal"] >>] >>

\* The satellite backhaul between the two, 1545 MHz, 10 W.
INITIAL_LINKS ==
    << [id |-> "link_sat1", fromNodeId |-> "v_stab1", toNodeId |-> "v_sig_radio",
        equipmentFromId |-> Some("satcom1"), equipmentToId |-> Some("satcom1"),
        frequencyMhz |-> 1545, bandwidthKhz |-> 500, txPowerW |-> 10000,
        linkBudget |-> Undefined] >>

\* The nodes one unit contributes: one per vehicle that has a position, and
\* the unit itself when it has a position and no vehicles.
UnitNodes(unit) ==
    LET placed == SelectSeq(unit.vehicles, LAMBDA v : v.position # Undefined)
        vehicleNodes ==
            [i \in 1..Len(placed) |->
                [id |-> placed[i].id,
                 label |-> placed[i].callSign,
                 position |-> placed[i].position[1],
                 unitId |-> unit.id,
                 vehicleId |-> Some(placed[i].id),
                 equipment |-> placed[i].equipment]]
        hqNode ==
            IF Len(unit.vehicles) = 0 /\ unit.position # Undefined
            THEN << [id |-> unit.id,
                     label |-> unit.shortName,
                     position |-> unit.position[1],
                     unitId |-> unit.id,
                     vehicleId |-> Undefined,
                     equipment |-> << >>] >>
            ELSE << >>
    IN  vehicleNodes \o hqNode

RECURSIVE buildNodesFromUnits(_)
buildNodesFromUnits(units) ==
    IF units = << >> THEN << >>
    ELSE UnitNodes(Head(units)) \o buildNodesFromUnits(Tail(units))

\* ------------------------------------------------------------------------
\* src/src/store/index.ts: the TypeScript store
\* ------------------------------------------------------------------------

rebuildNodes(units) == buildNodesFromUnits(units)

\* { ...a, ...b }
Spread(a, b) ==
    [f \in (DOMAIN a) \cup (DOMAIN b) |-> IF f \in DOMAIN b THEN b[f] ELSE a[f]]

\* Array.prototype.find on the id: the first element with that id, if any.
FindById(seq, id) ==
    LET hits == {i \in DOMAIN seq : seq[i].id = id}
    IN  IF hits = {} THEN Undefined
        ELSE Some(seq[CHOOSE i \in hits : \A j \in hits : i <= j])

\* find on an optional id: undefined equals no id.
FindByOptionalId(seq, id) ==
    IF id = Undefined THEN Undefined ELSE FindById(seq, id[1])

\* units.flatMap(u => u.vehicles)
RECURSIVE AllVehicles(_)
AllVehicles(units) ==
    IF units = << >> THEN << >>
    ELSE Head(units).vehicles \o AllVehicles(Tail(units))

\* vehicle?.equipment.find(e => e.id === equipmentId)
VehicleEquipment(vehicle, equipmentId) ==
    IF vehicle = Undefined THEN Undefined
    ELSE FindByOptionalId(vehicle[1].equipment, equipmentId)

\* Mutant: the budget is left as it was.
recalcLinkBudget_Skip(links, nodes, units, id) == links

\* recalcLinkBudget(id) on the store's links, nodes and units; the result is
\* the new links list.
recalcLinkBudget(links, nodes, units, id) ==
    LET link     == FindById(links, id)
        fromNode == IF link = Undefined THEN Undefined
                    ELSE FindById(nodes, link[1].fromNodeId)
        toNode   == IF link = Undefined THEN Undefined
                    ELSE FindById(nodes, link[1].toNodeId)
    IN  IF link = Undefined \/ fromNode = Undefined \/ toNode = Undefined
        THEN links
        ELSE LET fromVehicle == FindByOptionalId(AllVehicles(units), fromNode[1].vehicleId)
                 toVehicle   == FindByOptionalId(AllVehicles(units), toNode[1].vehicleId)
                 fromEquip   == VehicleEquipment(fromVehicle, link[1].equipmentFromId)
                 toEquip     == VehicleEquipment(toVehicle, link[1].equipmentToId)
                 budget      == calcLinkBudget(fromNode[1].position, toNode[1].position,
                                               link[1], fromEquip, toEquip)
             IN  [i \in DOMAIN links |->
                    IF links[i].id = id
                    THEN [links[i] EXCEPT !.linkBudget = Some(budget)]
                    ELSE links[i]]

\* get().links.forEach(l => get().recalcLinkBudget(l.id)): the ids are those
\* of the list when the loop starts, each call sees the links so far.
RECURSIVE RecalcEach(_, _, _, _)
RecalcEach(ids, links, nodes, units) ==
    IF ids = << >> THEN links
    ELSE RecalcEach(Tail(ids), recalcLinkBudget(links, nodes, units, Head(ids)),
                    nodes, units)

recalcAllBudgets(links, nodes, units) ==
    RecalcEach([i \in DOMAIN links |-> links[i].id], links, nodes, units)

\* ------------------------------------------------------------------------
\* RadioPlanner/Services/RadioPlannerStore.cs: the C# store
\* ------------------------------------------------------------------------

\* The nodes are derived from the units on every read.
RECURSIVE BuildNodesFromUnits(_)
BuildNodesFromUnits(units) ==
    IF units = << >> THEN << >>
    ELSE LET unit   == Head(units)
             placed == SelectSeq(unit.vehicles, LAMBDA v : v.position # Undefined)
             vehicleNodes ==
                 [i \in 1..Len(placed) |->
                     [id |-> placed[i].id,
                      label |-> placed[i].callSign,
                      position |-> placed[i].position[1],
                      unitId |-> unit.id,
                      vehicleId |-> Some(placed[i].id),
                      equipment |-> placed[i].equipment]]
             hqNode ==
                 IF Len(unit.vehicles) = 0 /\ unit.position # Undefined
                 THEN << [id |-> unit.id,
                          label |-> unit.shortName,
                          position |-> unit.position[1],
                          unitId |-> unit.id,
                          vehicleId |-> Undefined,
                          equipment |-> << >>] >>
                 ELSE << >>
         IN  vehicleNodes \o hqNode \o BuildNodesFromUnits(Tail(units))

Nodes(units) == BuildNodesFromUnits(units)

\* FirstOrDefault on the id.
FirstOrDefault(seq, id) ==
    LET hits == {i \in DOMAIN seq : seq[i].id = id}
    IN  IF hits = {} THEN Undefined
        ELSE Some(seq[CHOOSE i \in hits : \A j \in hits : i <= j])

\* _units.SelectMany(u => u.Vehicles)
RECURSIVE SelectManyVehicles(_)
SelectManyVehicles(units) ==
    IF units = << >> THEN << >>
    ELSE Head(units).vehicles \o SelectManyVehicles(Tail(units))

\* The equipment of a node's vehicle with the link's equipment id; a null
\* id matches nothing.
NodeEquipment(units, node, equipmentId) ==
    LET vehicle == IF node.vehicleId = Undefined THEN Undefined
                   ELSE FirstOrDefault(SelectManyVehicles(units), node.vehicleId[1])
    IN  IF vehicle = Undefined \/ equipmentId = Undefined THEN Undefined
        ELSE FirstOrDefault(vehicle[1].equipment, equipmentId[1])

\* RecalcLinkBudget(id): GetLink returns the first link with the id, and
\* that link's budget is assigned in place.
RecalcLinkBudget(links, units, id) ==
    LET hits  == {i \in DOMAIN links : links[i].id = id}
        nodes == Nodes(units)
    IN  IF hits = {} THEN links
        ELSE LET k        == CHOOSE i \in hits : \A j \in hits : i <= j
                 link     == links[k]
                 fromNode == FirstOrDefault(nodes, link.fromNodeId)
                 toNode   == FirstOrDefault(nodes, link.toNodeId)
             IN  IF fromNode = Undefined \/ toNode = Undefined THEN links
                 ELSE [links EXCEPT ![k].linkBudget =
                          Some(CalcLinkBudget(fromNode[1].position, toNode[1].position,
                                              link,
                                              NodeEquipment(units, fromNode[1], link.equipmentFromId),
                                              NodeEquipment(units, toNode[1], link.equipmentToId)))]

RECURSIVE RecalcEachLink(_, _, _)
RecalcEachLink(ids, links, units) ==
    IF ids = << >> THEN links
    ELSE RecalcEachLink(Tail(ids), RecalcLinkBudget(links, units, Head(ids)), units)

RecalcAllBudgets(links, units) ==
    RecalcEachLink([i \in DOMAIN links |-> links[i].id], links, units)

\* ------------------------------------------------------------------------
\* The operations of the TypeScript store. A store state s is the record
\* [units, nodes, links]; each operation gives the state it leaves.
\* ------------------------------------------------------------------------

moveNode(s, nodeId, pos) ==
    LET updated ==
            [i \in DOMAIN s.units |->
                [s.units[i] EXCEPT
                    !.vehicles = [k \in DOMAIN s.units[i].vehicles |->
                                     IF s.units[i].vehicles[k].id = nodeId
                                     THEN [s.units[i].vehicles[k] EXCEPT !.position = Some(pos)]
                                     ELSE s.units[i].vehicles[k]],
                    !.position = IF s.units[i].id = nodeId THEN Some(pos)
                                 ELSE s.units[i].position]]
    IN  [units |-> updated,
         nodes |-> rebuildNodes(updated),
         links |-> recalcAllBudgets(s.links, rebuildNodes(updated), updated)]

updateNode(s, nodeId, patch) ==
    [s EXCEPT !.nodes = [i \in DOMAIN s.nodes |->
                            IF s.nodes[i].id = nodeId
                            THEN Spread(s.nodes[i], patch) ELSE s.nodes[i]]]

addUnit(s, unitData, id) ==
    LET updated == Append(s.units, Spread(unitData, [id |-> id, vehicles |-> << >>]))
    IN  [s EXCEPT !.units = updated, !.nodes = rebuildNodes(updated)]

updateUnit(s, id, patch) ==
    LET updated == [i \in DOMAIN s.units |->
                       IF s.units[i].id = id
                       THEN Spread(s.units[i], patch) ELSE s.units[i]]
    IN  [s EXCEPT !.units = updated, !.nodes = rebuildNodes(updated)]

deleteUnit(s, id) ==
    LET updated == SelectSeq(s.units, LAMBDA u : u.id # id)
    IN  [s EXCEPT !.units = updated, !.nodes = rebuildNodes(updated)]

addLink(s, linkData, id) ==
    LET added == Append(s.links, Spread(linkData, [id |-> id]))
    IN  [s EXCEPT !.links = recalcLinkBudget(added, s.nodes, s.units, id)]

updateLink(s, id, patch) ==
    LET patched == [i \in DOMAIN s.links |->
                       IF s.links[i].id = id
                       THEN Spread(s.links[i], patch) ELSE s.links[i]]
    IN  [s EXCEPT !.links = recalcLinkBudget(patched, s.nodes, s.units, id)]

deleteLink(s, id) ==
    [s EXCEPT !.links = SelectSeq(s.links, LAMBDA l : l.id # id)]

\* ------------------------------------------------------------------------
\* The operations of the C# store. A store state c is the record
\* [units, links]; the nodes are Nodes(c.units).
\* ------------------------------------------------------------------------

AddUnit(c, unit, id) ==
    [c EXCEPT !.units = Append(c.units, Spread(unit, [id |-> id]))]

\* GetUnit gives the first unit with the id, which the patch then changes.
UpdateUnit(c, id, patch) ==
    LET hits == {i \in DOMAIN c.units : c.units[i].id = id}
    IN  IF hits = {} THEN c
        ELSE LET k == CHOOSE i \in hits : \A j \in hits : i <= j
             IN  [c EXCEPT !.units[k] = Spread(c.units[k], patch)]

DeleteUnit(c, id) ==
    [c EXCEPT !.units = SelectSeq(c.units, LAMBDA u : u.id # id)]

MoveNode(c, nodeId, pos) ==
    LET moved == \E i \in DOMAIN c.units :
                    \/ c.units[i].id = nodeId
                    \/ \E k \in DOMAIN c.units[i].vehicles :
                          c.units[i].vehicles[k].id = nodeId
        updated ==
            [i \in DOMAIN c.units |->
                [c.units[i] EXCEPT
                    !.position = IF c.units[i].id = nodeId THEN Some(pos)
                                 ELSE c.units[i].position,
                    !.vehicles = [k \in DOMAIN c.units[i].vehicles |->
                                     IF c.units[i].vehicles[k].id = nodeId
                                     THEN [c.units[i].vehicles[k] EXCEPT !.position = Some(pos)]
                                     ELSE c.units[i].vehicles[k]]]]
    IN  [units |-> updated,
         links |-> IF moved THEN RecalcAllBudgets(c.links, updated) ELSE c.links]

AddLink(c, link, id) ==
    LET added == Append(c.links, Spread(link, [id |-> id]))
    IN  [c EXCEPT !.links = RecalcLinkBudget(added, c.units, id)]

\* GetLink gives the first link with the id; without one nothing happens.
UpdateLink(c, id, patch) ==
    LET hits == {i \in DOMAIN c.links : c.links[i].id = id}
    IN  IF hits = {} THEN c
        ELSE LET k == CHOOSE i \in hits : \A j \in hits : i <= j
                 patched == [c.links EXCEPT ![k] = Spread(c.links[k], patch)]
             IN  [c EXCEPT !.links = RecalcLinkBudget(patched, c.units, id)]

DeleteLink(c, id) ==
    [c EXCEPT !.links = SelectSeq(c.links, LAMBDA l : l.id # id)]

\* ------------------------------------------------------------------------
\* The engine as a state machine: a caller invokes one exported function
\* at a time; the state is the call in progress and what it returns, and
\* Return hands control back to the caller.
\* ------------------------------------------------------------------------

VARIABLE op      \* the exported function being called, or "none"

VARIABLE args    \* its arguments

VARIABLE result  \* the value it returns

\* The two stores, driven by the same operations: units, nodes and links
\* are the state of the TypeScript store, csUnits and csLinks the _units
\* and _links of the C# store.
VARIABLE started  \* the initial recalcAllBudgets of the TypeScript store has run

VARIABLE units

VARIABLE nodes

VARIABLE links

VARIABLE csUnits

VARIABLE csLinks

VARIABLE nextId   \* how many ids nanoid / NewId have handed out

storeVars == <<started, units, nodes, links, csUnits, csLinks, nextId>>

vars == <<op, args, result, started, units, nodes, links, csUnits, csLinks, nextId>>

PropagationModels ==
    {"FSPL", "ITU_P452", "ITU_P1546", "ITU_P526", "OKUMURA_HATA", "AUTO"}

\* ---- bounds of the inputs ---------------------------------------------

NumPoints == 4

NumFreqs == 6

NumTerrains == 6

MaxMarginStep == 6

\* Offsets of the far endpoint from the near one, 1e-4 degree of latitude:
\* 0 m, 1000 m, 3502 m, 55 m, 10563 m, 555 m (haversineKm, whole metres).
LatOffsets == <<0, 90, 315, 5, 950, 50>>

Origin == [lat |-> 593300, lng |-> 180700]

Points ==
    {[lat |-> Origin.lat + LatOffsets[i], lng |-> Origin.lng] :
        i \in 1..Min(NumPoints, Len(LatOffsets))}

FreqTable == <<8, 30, 400, 1500, 3000, 15000, 1501, 29, 3001, 150, 60000>>

Freqs == {FreqTable[i] : i \in 1..Min(NumFreqs, Len(FreqTable))}

\* Partial terrain profiles a caller may pass.
NoTerrain == [f \in {} |-> 0]

TerrainTable ==
    << NoTerrain,
       [groundType |-> "URBAN", antennaHeightTxM |-> 30000,
        antennaHeightRxM |-> 1500],
       [type |-> "MOUNTAINOUS", elevationTxM |-> 50000, elevationRxM |-> 100000,
        obstaclePeakElevM |-> 300000, obstacleDistFromTxKm |-> 500],
       [groundType |-> "SUBURBAN", rainRateMmH |-> 100,
        liquidWaterContentGm3 |-> 300],
       [type |-> "HILLY", groundType |-> "FOREST", obstaclePeakElevM |-> 1000,
        obstacleDistFromTxKm |-> 500],
       [groundType |-> "DENSE_URBAN", obstaclePeakElevM |-> 50000],
       [type |-> "VALLEY", groundType |-> "SEA", obstaclePeakElevM |-> -40000,
        obstacleDistFromTxKm |-> 500] >>

\* A profile whose rain rate is negative.
NegativeRainTerrain ==
    [groundType |-> "SUBURBAN", rainRateMmH |-> -5,
     liquidWaterContentGm3 |-> 300]

Terrains ==
    {TerrainTable[i] : i \in 1..Min(NumTerrains, Len(TerrainTable))}
        \cup {NegativeRainTerrain}

\* Transmit powers, mW.
TxPowers == {10, 1000, 100000}

Links ==
    {[frequencyMhz |-> f, txPowerW |-> p, bandwidthKhz |-> 25] :
        f \in Freqs, p \in TxPowers}
        \cup {[frequencyMhz |-> 400, txPowerW |-> 10, bandwidthKhz |-> b] :
                  b \in {-5, 0, 1}}

EquipA ==
    [antennaGainDbi |-> 10000, rxSensitivityDbm |-> -105000,
     freqMin |-> 30, freqMax |-> 3000]

\* A receiver whose sensitivity is the power that the 400 MHz, 10 mW link
\* over 1000 m of default terrain delivers to it (-79.467 dBm).
EquipEdge ==
    [antennaGainDbi |-> 10000, rxSensitivityDbm |-> -79467,
     freqMin |-> 30, freqMax |-> 3000]

\* Equipment whose frequency range is inverted (freqMin > freqMax).
EquipInverted ==
    [antennaGainDbi |-> 3000, rxSensitivityDbm |-> -95000,
     freqMin |-> 3000, freqMax |-> 30]

ForceModels == {Undefined} \cup {Some(m) : m \in PropagationModels}

Distances == {0, 50, 999, 1000, 5000}

Margins ==
    {m * 5000 : m \in (-MaxMarginStep)..MaxMarginStep}
        \cup {-100000, 100000, -250, 250}

\* Obstacle data a caller may pass besides the profiles above: one field
\* only, the obstacle at the transmitter, behind it, at the receiver of the
\* 1000 m path, and 1 km above and below the terminals.
ObstacleExtras ==
    { [obstacleDistFromTxKm |-> 500],
      [obstaclePeakElevM |-> 20000, obstacleDistFromTxKm |-> 0],
      [obstaclePeakElevM |-> 20000, obstacleDistFromTxKm |-> -200],
      [obstaclePeakElevM |-> 20000, obstacleDistFromTxKm |-> 1000],
      [obstaclePeakElevM |-> 1000000, obstacleDistFromTxKm |-> 500],
      [obstaclePeakElevM |-> -1000000, obstacleDistFromTxKm |-> 500] }

\* Full profiles for the direct calls of the obstacle functions.
ObstacleTerrains == {MergeTerrain(t) : t \in Terrains \cup ObstacleExtras}

\* Arguments of the direct calls of the loss functions: distances in m
\* and frequencies in MHz, zero and negative ones included; rain rates.
LossDistances == Distances \cup {-1000}

LossFreqs == Freqs \cup {0, -400}

RainRates == {-5, 0, 25, 100}

\* Fresnel-Kirchhoff parameters, thousandths, on both sides of the piece
\* boundaries -1, 0, 1 and 2.4 of knifeEdgeDiffraction.
NuValues ==
    {-2000, -1001, -1000, -500, -1, 0, 500, 999, 1000, 1500, 2399, 2400,
     3000, 10000}

\* Arguments of the direct calls of ituP1546Loss: frequencies on both
\* sides of 30, 300 and 3000 MHz and a transmitter antenna below 1 m.
P1546Freqs == LossFreqs \cup {29, 299, 300, 3001}

P1546Terrains ==
    {MergeTerrain(t) :
        t \in Terrains \cup {[type |-> "HILLY", antennaHeightTxM |-> 500]}}

\* Channel bandwidths, kHz, zero and negative ones included.
Bandwidths == {-5, 0, 1, 25, 1000}

\* ---- actions ------------------------------------------------------------

\* Both stores as constructed: the C# constructor has recalculated the
\* budgets, the TypeScript store has its recalculation still pending.
Init ==
    /\ op = "none"
    /\ args = << >>
    /\ result = << >>
    /\ started = FALSE
    /\ units = INITIAL_UNITS
    /\ nodes = rebuildNodes(INITIAL_UNITS)
    /\ links = INITIAL_LINKS
    /\ csUnits = INITIAL_UNITS
    /\ csLinks = RecalcAllBudgets(INITIAL_LINKS, INITIAL_UNITS)
    /\ nextId = 0

SelectModelCall ==
    /\ op = "none"
    /\ \E f \in Freqs, d \in Distances, t \in Terrains :
        /\ op' = "selectModel"
        /\ args' = [freqMhz |-> f, distKm |-> d, terrain |-> MergeTerrain(t)]
        /\ result' = selectModel(f, d, MergeTerrain(t))
    /\ UNCHANGED storeVars

ConnectionQualityCall ==
    /\ op = "none"
    /\ \E m \in Margins, fr \in {-500, 0, 500, 1000, 1500},
       rain \in {-10000, 0, 5000, 20000}, cloud \in {0, 3000},
       tg \in {0, 5000, 50000}, rg \in {-5000, 5000},
       bw \in {-5, 0, 25} :
        LET params == [linkMarginDb |-> m,
                       fresnelClearanceFraction |-> fr,
                       txGainDbi |-> tg,
                       rxGainDbi |-> rg,
                       receivedPowerDbm |-> m - 110000,
                       bandwidthKhz |-> bw,
                       rainAttenuationDb |-> rain,
                       cloudFogAttenuationDb |-> cloud]
        IN  /\ op' = "connectionQuality"
            /\ args' = params
            /\ result' = connectionQuality(params)
    /\ UNCHANGED storeVars

CalcItuLinkBudgetCall ==
    /\ op = "none"
    /\ \E to \in Points, link \in Links,
       fromEquip \in {Undefined, Some(EquipA), Some(EquipInverted)},
       toEquip \in {Undefined, Some(EquipA), Some(EquipEdge),
                    Some(EquipInverted)},
       terrain \in Terrains, forceModel \in ForceModels :
        /\ op' = "calcItuLinkBudget"
        /\ args' = [from |-> Origin, to |-> to, link |-> link,
                    fromEquip |-> fromEquip, toEquip |-> toEquip,
                    terrain |-> terrain, forceModel |-> forceModel]
        /\ result' = calcItuLinkBudget(Origin, to, link, fromEquip, toEquip,
                                       terrain, forceModel)
    /\ UNCHANGED storeVars

FresnelParameterCall ==
    /\ op = "none"
    /\ \E f \in Freqs, d \in Distances, t \in ObstacleTerrains :
        /\ op' = "fresnelParameter"
        /\ args' = [freqMhz |-> f, distKm |-> d, terrain |-> t]
        /\ result' = fresnelParameter(d, f, t)
    /\ UNCHANGED storeVars

CalcDiffractionLossCall ==
    /\ op = "none"
    /\ \E f \in Freqs, d \in Distances, t \in ObstacleTerrains :
        /\ op' = "calcDiffractionLoss"
        /\ args' = [freqMhz |-> f, distKm |-> d, terrain |-> t]
        /\ result' = calcDiffractionLoss(d, f, t)
    /\ UNCHANGED storeVars

FresnelClearanceCall ==
    /\ op = "none"
    /\ \E f \in Freqs, d \in Distances, t \in ObstacleTerrains :
        /\ op' = "fresnelClearance"
        /\ args' = [freqMhz |-> f, distKm |-> d, terrain |-> t]
        /\ result' = fresnelClearance(d, f, t)
    /\ UNCHANGED storeVars

KnifeEdgeDiffractionCall ==
    /\ op = "none"
    /\ \E nu \in NuValues :
        /\ op' = "knifeEdgeDiffraction"
        /\ args' = [nu |-> nu]
        /\ result' = knifeEdgeDiffraction(nu)
    /\ UNCHANGED storeVars

FsplCall ==
    /\ op = "none"
    /\ \E f \in LossFreqs, d \in LossDistances :
        /\ op' = "fspl"
        /\ args' = [freqMhz |-> f, distKm |-> d]
        /\ result' = fspl(d, f)
    /\ UNCHANGED storeVars

GasAbsorptionCall ==
    /\ op = "none"
    /\ \E f \in LossFreqs, d \in LossDistances :
        /\ op' = "gasAbsorption"
        /\ args' = [freqMhz |-> f, distKm |-> d]
        /\ result' = gasAbsorption(d, f)
    /\ UNCHANGED storeVars

CloudFogAttenuationCall ==
    /\ op = "none"
    /\ \E f \in LossFreqs, d \in LossDistances, lwc \in {0, 300} :
        /\ op' = "cloudFogAttenuation"
        /\ args' = [freqMhz |-> f, distKm |-> d, lwcGm3 |-> lwc]
        /\ result' = cloudFogAttenuation(d, f, lwc)
    /\ UNCHANGED storeVars

OkumuraHataLossCall ==
    /\ op = "none"
    /\ \E f \in LossFreqs, d \in LossDistances, hte \in {2000, 30000},
       g \in {"URBAN", "SUBURBAN", "OPEN_LAND"} :
        /\ op' = "okumuraHataLoss"
        /\ args' = [freqMhz |-> f, distKm |-> d, hteTxM |-> hte,
                    hreRxM |-> 1500, groundType |-> g]
        /\ result' = okumuraHataLoss(d, f, hte, 1500, g)
    /\ UNCHANGED storeVars

ItuP1546LossCall ==
    /\ op = "none"
    /\ \E f \in P1546Freqs, d \in LossDistances, t \in P1546Terrains :
        /\ op' = "ituP1546Loss"
        /\ args' = [freqMhz |-> f, distKm |-> d, terrain |-> t]
        /\ result' = ituP1546Loss(d, f, t)
    /\ UNCHANGED storeVars

ThermalNoiseCall ==
    /\ op = "none"
    /\ \E bw \in Bandwidths :
        /\ op' = "thermalNoise"
        /\ args' = [bandwidthKhz |-> bw]
        /\ result' = thermalNoise(bw)
    /\ UNCHANGED storeVars

RainAttenuationCall ==
    /\ op = "none"
    /\ \E f \in LossFreqs, d \in LossDistances, r \in RainRates :
        /\ op' = "rainAttenuation"
        /\ args' = [freqMhz |-> f, distKm |-> d, rainRateMmH |-> r]
        /\ result' = rainAttenuation(d, f, r)
    /\ UNCHANGED storeVars

Return ==
    /\ op # "none"
    /\ op' = "none"
    /\ args' = << >>
    /\ result' = << >>
    /\ UNCHANGED storeVars

Next ==
    \/ Return
    \/ SelectModelCall
    \/ ConnectionQualityCall
    \/ CalcItuLinkBudgetCall
    \/ FresnelParameterCall
    \/ CalcDiffractionLossCall
    \/ FresnelClearanceCall
    \/ RainAttenuationCall
    \/ ThermalNoiseCall
    \/ FsplCall
    \/ GasAbsorptionCall
    \/ CloudFogAttenuationCall
    \/ OkumuraHataLossCall
    \/ ItuP1546LossCall
    \/ KnifeEdgeDiffractionCall

Spec == Init /\ [][Next]_vars

\* ------------------------------------------------------------------------
\* The stores as a state machine: every operation both stores provide is
\* applied to both, with the same arguments and the same generated id;
\* updateNode exists in the TypeScript store only. op and args record the
\* operation that ran last.
\* ------------------------------------------------------------------------

MaxNewIds == 2

\* The ids nanoid() and IdHelper.NewId() hand out, in order.
IdPool == <<"new1", "new2", "new3", "new4">>

nanoid(n) == IdPool[n + 1]

NewId(n) == IdPool[n + 1]

North == [lat |-> 593400, lng |-> 180700]

South == [lat |-> 593150, lng |-> 180700]

MovePositions == {North}

Ids(seq) == {seq[i].id : i \in DOMAIN seq}

TsStore == [units |-> units, nodes |-> nodes, links |-> links]

CsStore == [units |-> csUnits, links |-> csLinks]

\* Both stores take the states s and c.
Becomes(s, c) ==
    /\ units' = s.units
    /\ nodes' = s.nodes
    /\ links' = s.links
    /\ csUnits' = c.units
    /\ csLinks' = c.links

\* setTimeout(() => useStore.getState().recalcAllBudgets(), 0)
Startup ==
    /\ ~started
    /\ started' = TRUE
    /\ op' = "recalcAllBudgets"
    /\ args' = << >>
    /\ result' = << >>
    /\ links' = recalcAllBudgets(links, nodes, units)
    /\ UNCHANGED <<units, nodes, csUnits, csLinks, nextId>>

MoveNodeStep ==
    /\ started
    /\ \E nodeId \in (Ids(nodes) \ {"v_stab1"}) \cup {"ghost"}, pos \in MovePositions :
        /\ op' = "moveNode"
        /\ args' = [nodeId |-> nodeId]
        /\ Becomes(moveNode(TsStore, nodeId, pos), MoveNode(CsStore, nodeId, pos))
    /\ result' = << >>
    /\ UNCHANGED <<started, nextId>>

UpdateNodeStep ==
    /\ started
    /\ \E nodeId \in Ids(nodes) \ {"v_stab1"},
          patch \in {[label |-> "RENAMED"], [position |-> North]} :
        /\ op' = "updateNode"
        /\ args' = [nodeId |-> nodeId]
        /\ Becomes(updateNode(TsStore, nodeId, patch), CsStore)
    /\ result' = << >>
    /\ UNCHANGED <<started, nextId>>

AddUnitStep ==
    /\ started
    /\ nextId < MaxNewIds
    /\ \E unitData \in {[shortName |-> "HQ", position |-> Some(South)]} :
        /\ op' = "addUnit"
        /\ args' = [id |-> nanoid(nextId)]
        /\ Becomes(addUnit(TsStore, unitData, nanoid(nextId)),
                   AddUnit(CsStore, Spread(unitData, [vehicles |-> << >>]), NewId(nextId)))
    /\ nextId' = nextId + 1
    /\ result' = << >>
    /\ UNCHANGED started

UpdateUnitStep ==
    /\ started
    /\ \E id \in Ids(units) \ Ids(INITIAL_UNITS), patch \in {[position |-> Some(North)]} :
        /\ op' = "updateUnit"
        /\ args' = [id |-> id]
        /\ Becomes(updateUnit(TsStore, id, patch), UpdateUnit(CsStore, id, patch))
    /\ result' = << >>
    /\ UNCHANGED <<started, nextId>>

DeleteUnitStep ==
    /\ started
    /\ \E id \in Ids(units) \ {"u_stab"} :
        /\ op' = "deleteUnit"
        /\ args' = [id |-> id]
        /\ Becomes(deleteUnit(TsStore, id), DeleteUnit(CsStore, id))
    /\ result' = << >>
    /\ UNCHANGED <<started, nextId>>

AddLinkStep ==
    /\ started
    /\ nextId < MaxNewIds
    /\ \E toNodeId \in (Ids(nodes) \cup {"ghost"}) \ {"v_stab1"} :
        LET linkData == [fromNodeId |-> "v_stab1", toNodeId |-> toNodeId,
                         equipmentFromId |-> Some("ra190"),
                         equipmentToId |-> Some("ra190"),
                         frequencyMhz |-> 400, bandwidthKhz |-> 25,
                         txPowerW |-> 5000, linkBudget |-> Undefined]
        IN  /\ op' = "addLink"
            /\ args' = [id |-> nanoid(nextId)]
            /\ Becomes(addLink(TsStore, linkData, nanoid(nextId)),
                       AddLink(CsStore, linkData, NewId(nextId)))
    /\ nextId' = nextId + 1
    /\ result' = << >>
    /\ UNCHANGED started

UpdateLinkStep ==
    /\ started
    /\ \E id \in Ids(links), patch \in {[frequencyMhz |-> 90]} :
        /\ op' = "updateLink"
        /\ args' = [id |-> id]
        /\ Becomes(updateLink(TsStore, id, patch), UpdateLink(CsStore, id, patch))
    /\ result' = << >>
    /\ UNCHANGED <<started, nextId>>

DeleteLinkStep ==
    /\ started
    /\ \E id \in Ids(links) :
        /\ op' = "deleteLink"
        /\ args' = [id |-> id]
        /\ Becomes(deleteLink(TsStore, id), DeleteLink(CsStore, id))
    /\ result' = << >>
    /\ UNCHANGED <<started, nextId>>

RecalcLinkBudgetStep ==
    /\ started
    /\ \E id \in Ids(links) :
        /\ op' = "recalcLinkBudget"
        /\ args' = [id |-> id]
        /\ links' = recalcLinkBudget(links, nodes, units, id)
        /\ csLinks' = RecalcLinkBudget(csLinks, csUnits, id)
    /\ result' = << >>
    /\ UNCHANGED <<started, nextId, units, nodes, csUnits>>

RecalcAllBudgetsStep ==
    /\ started
    /\ op' = "recalcAllBudgets"
    /\ args' = << >>
    /\ result' = << >>
    /\ links' = recalcAllBudgets(links, nodes, units)
    /\ csLinks' = RecalcAllBudgets(csLinks, csUnits)
    /\ UNCHANGED <<started, nextId, units, nodes, csUnits>>

\* The operations both stores provide.
CommonNext ==
    \/ Startup
    \/ MoveNodeStep
    \/ AddUnitStep
    \/ UpdateUnitStep
    \/ DeleteUnitStep
    \/ AddLinkStep
    \/ UpdateLinkStep
    \/ DeleteLinkStep
    \/ RecalcLinkBudgetStep
    \/ RecalcAllBudgetsStep

CommonSpec == Init /\ [][CommonNext]_vars

\* All operations of the TypeScript store.
StoreNext ==
    \/ CommonNext
    \/ UpdateNodeStep

StoreSpec == Init /\ [][StoreNext]_vars

\* The state after a call of calcItuLinkBudget, selectModel, connectionQuality.
IsBudget == op = "calcItuLinkBudget"

IsSelect == op = "selectModel"

IsQuality == op = "connectionQuality"

\* The ConnectionQuality record of the call in progress.
Quality == IF IsBudget THEN result.connectionQuality ELSE result

\* The link margin the quality was computed from.
QualityMargin == IF IsBudget THEN result.linkMarginDb ELSE args.linkMarginDb

\* The inputs of the budget call in progress, as the function derives them.
CallDist == haversineKm(args.from, args.to)

CallFreq == args.link.frequencyMhz

CallTerrain == MergeTerrain(args.terrain)

\* ------------------------------------------------------------------------
\* C1..C10
\* ------------------------------------------------------------------------

\* The priority list of the model selector: <<condition, model>>.
SelectorCases(f, d, t) ==
    << << HasObstacleFields(t) /\ f >= 30, "ITU_P526" >>,
       << f < 30, "FSPL" >>,
       << f <= 1500 /\ t.groundType \in {"SUBURBAN", "URBAN", "DENSE_URBAN"}
             /\ d >= 1000, "OKUMURA_HATA" >>,
       << f <= 3000, "ITU_P1546" >>,
       << TRUE, "FSPL" >> >>

FirstMatch(cases) ==
    LET i == CHOOSE k \in 1..Len(cases) :
                 cases[k][1] /\ \A j \in 1..(k - 1) : ~cases[j][1]
    IN  cases[i][2]

\* C1: selectModel(f, d, terrain) returns the first matching case of the
\* priority list ITU_P526 (both obstacle fields, f >= 30), FSPL (f < 30),
\* OKUMURA_HATA (f <= 1500, suburban/urban/dense urban ground, d >= 1 km),
\* ITU_P1546 (f <= 3000), FSPL.
C1_SelectModelPriority ==
    IsSelect =>
        result = FirstMatch(SelectorCases(args.freqMhz, args.distKm, args.terrain))

\* C1 witness: an urban path of exactly 1 km at 1500 MHz without obstacle
\* gets Okumura-Hata.
C1_Witness ==
    /\ IsSelect
    /\ args.freqMhz = 1500
    /\ args.distKm = 1000
    /\ args.terrain.groundType = "URBAN"
    /\ ~HasObstacleFields(args.terrain)
    /\ result = "OKUMURA_HATA"

\* C2: the reported model is forceModel when one other than AUTO is
\* supplied, selectModel's choice when forceModel is absent or AUTO, and
\* never AUTO.
C2_ForcedModel ==
    IsBudget =>
        /\ (args.forceModel # Undefined /\ args.forceModel # Some("AUTO"))
              => result.model = args.forceModel[1]
        /\ (args.forceModel = Undefined \/ args.forceModel = Some("AUTO"))
              => result.model = selectModel(CallFreq, CallDist, CallTerrain)
        /\ result.model # "AUTO"

\* C2 witness: a call with forceModel = AUTO reports the selector's model.
C2_Witness ==
    /\ IsBudget
    /\ args.forceModel = Some("AUTO")
    /\ result.model = "OKUMURA_HATA"

\* C3: receivedPowerDbm = txPowerDbm + txGainDbi + rxGainDbi - (base loss +
\* diffraction + gas + rain + cloud/fog + clutter) over the fields of the
\* same result, and linkMarginDb = receivedPowerDbm - rxSensitivityDbm.
C3_ReceivedPower ==
    IsBudget =>
        /\ result.receivedPowerDbm =
              result.txPowerDbm + result.txGainDbi + result.rxGainDbi
              - (result.fsplDb + result.diffractionLossDb
                 + result.gasAbsorptionDb + result.rainAttenuationDb
                 + result.cloudFogAttenuationDb + result.clutterLossDb)
        /\ result.linkMarginDb =
              result.receivedPowerDbm - result.rxSensitivityDbm

\* C3 witness: a budget in which every loss term and both gains are non-zero.
C3_Witness ==
    /\ IsBudget
    /\ result.txGainDbi > 0
    /\ result.rxGainDbi > 0
    /\ result.fsplDb > 0
    /\ result.gasAbsorptionDb > 0
    /\ result.rainAttenuationDb > 0
    /\ result.cloudFogAttenuationDb > 0
    /\ result.clutterLossDb > 0

\* C4: feasible is true exactly when linkMarginDb > 0; a margin of exactly 0
\* gives feasible = false.
C4_FeasibleStrict ==
    IsBudget => (result.feasible <=> result.linkMarginDb > 0)

\* C4 witness: a budget whose margin is exactly 0, reported infeasible.
C4_Witness ==
    /\ IsBudget
    /\ result.linkMarginDb = 0
    /\ result.feasible = FALSE

\* C5: diffractionLossDb is non-zero only when the reported model is
\* ITU_P526.
C5_DiffractionOnlyP526 ==
    IsBudget => (result.diffractionLossDb # 0 => result.model = "ITU_P526")

\* C5 witness: an obstacle that costs diffraction loss, with another model
\* forced: the budget reports no diffraction loss.
C5_Witness ==
    /\ IsBudget
    /\ result.model # "ITU_P526"
    /\ calcDiffractionLoss(CallDist, CallFreq, CallTerrain) > 0
    /\ result.diffractionLossDb = 0

\* C6: clutterLossDb = 0 when the reported model is OKUMURA_HATA, and
\* otherwise clutterLoss(frequency, groundType) of the merged terrain.
C6_ClutterUnlessHata ==
    IsBudget =>
        result.clutterLossDb =
            IF result.model = "OKUMURA_HATA" THEN 0
            ELSE clutterLoss(CallFreq, CallTerrain.groundType)

\* C6 witness: an urban Okumura-Hata budget, where the clutter function
\* itself is positive and the budget reports 0.
C6_Witness ==
    /\ IsBudget
    /\ result.model = "OKUMURA_HATA"
    /\ clutterLoss(CallFreq, CallTerrain.groundType) > 0
    /\ result.clutterLossDb = 0

\* C7: connectionQuality returns a score with 0 <= score <= 100 for every
\* input, whatever the margin, gains, Fresnel fraction and weather
\* attenuation.
C7_ScoreInRange ==
    IsQuality => (result.score >= 0 /\ result.score <= 100)

\* C8: whenever linkMarginDb < 0 the score is below 20, and at most
\* max(0, 19 + round(2 margin)).
C8_NegativeMarginCap ==
    ((IsQuality \/ IsBudget) /\ QualityMargin < 0) =>
        /\ Quality.score < 20
        /\ Quality.score <= Max(0, 19 + MathRound(2 * QualityMargin))

\* C8 witness: a slightly negative margin whose sub-scores add up to 20 or
\* more, so that the cap decides the score.
C8_Witness ==
    /\ IsQuality
    /\ args.linkMarginDb < 0
    /\ MathRound(marginScore(args.linkMarginDb)
                 + fresnelScore(args.fresnelClearanceFraction)
                 + weatherScore(args.rainAttenuationDb, args.cloudFogAttenuationDb)
                 + gainScore(args.txGainDbi, args.rxGainDbi)) >= 20
    /\ result.score < 20

\* C9: every budget with feasible = false has connectionQuality.score < 40.
C9_InfeasibleLowBands ==
    (IsBudget /\ result.feasible = FALSE) => result.connectionQuality.score < 40

\* C10: label and colour are a function of the final score with the five
\* bands >= 80 'Utmarkt', 60..79 'God', 40..59 'Acceptabel', 20..39 'Svag',
\* below 20 'Otillracklig'.
C10_FiveBands ==
    (IsQuality \/ IsBudget) =>
        LET sc == Quality.score
            expected ==
                CASE sc >= 80             -> <<"Utmarkt", "#22c55e">>
                  [] sc >= 60 /\ sc <= 79 -> <<"God", "#86efac">>
                  [] sc >= 40 /\ sc <= 59 -> <<"Acceptabel", "#facc15">>
                  [] sc >= 20 /\ sc <= 39 -> <<"Svag", "#f97316">>
                  [] sc < 20              -> <<"Otillracklig", "#ef4444">>
        IN  <<Quality.label, Quality.color>> = expected

\* C10 witness: a score at the lower edge of the 'Acceptabel' band.
C10_Witness ==
    /\ IsQuality
    /\ result.score \in 40..44
    /\ result.label = "Acceptabel"
    /\ result.color = "#facc15"

\* ------------------------------------------------------------------------
\* C11..C20
\* ------------------------------------------------------------------------

\* The caller's partial terrain with both obstacle fields left out.
StripObstacle(terrain) ==
    [f \in (DOMAIN terrain) \ {"obstaclePeakElevM", "obstacleDistFromTxKm"} |->
        terrain[f]]

\* The obstacle of the profile lies on the path: 0 < d1 < path length.
ObstacleOnPath(distKm, terrain) ==
    /\ terrain.obstacleDistFromTxKm > 0
    /\ terrain.obstacleDistFromTxKm < distKm

\* The budget of the call in progress with the terrain replaced.
BudgetWithTerrain(terrain) ==
    calcItuLinkBudget(args.from, args.to, args.link, args.fromEquip,
                      args.toEquip, terrain, args.forceModel)

\* C11: when the terrain's obstacleDistFromTxKm is not strictly between 0
\* and the path length, calcItuLinkBudget reports the same model, base
\* loss, diffraction loss and Fresnel clearance as the same call with both
\* obstacle fields omitted.
C11_ObstacleOutsidePathAbsent ==
    (IsBudget /\ HasObstacleFields(args.terrain)
        /\ ~ObstacleOnPath(CallDist, args.terrain)) =>
        LET other == BudgetWithTerrain(StripObstacle(args.terrain))
        IN  /\ result.model = other.model
            /\ result.fsplDb = other.fsplDb
            /\ result.diffractionLossDb = other.diffractionLossDb
            /\ result.fresnelClearanceFraction = other.fresnelClearanceFraction

IsFresnelParameter == op = "fresnelParameter"

IsDiffraction == op = "calcDiffractionLoss"

IsClearance == op = "fresnelClearance"

\* C12: when either obstacle field is missing, fresnelParameter returns -2,
\* calcDiffractionLoss returns 0 and fresnelClearance returns 1.0; when the
\* obstacle distance is <= 0 or >= the path length, calcDiffractionLoss
\* returns 0 as well; for every distance, frequency and other terrain field.
C12_MissingOrOffPathObstacle ==
    /\ (IsFresnelParameter /\ ~HasObstacleFields(args.terrain))
          => result = -2000
    /\ (IsDiffraction /\ ~HasObstacleFields(args.terrain)) => result = 0
    /\ (IsClearance /\ ~HasObstacleFields(args.terrain)) => result = 1000
    /\ (IsDiffraction /\ HasObstacleFields(args.terrain)
          /\ ~ObstacleOnPath(args.distKm, args.terrain)) => result = 0

\* C12 witness: a 20 m obstacle exactly at the receiver end of a 1000 m
\* path costs no diffraction loss.
C12_Witness ==
    /\ IsDiffraction
    /\ HasObstacleFields(args.terrain)
    /\ args.terrain.obstaclePeakElevM = 20000
    /\ args.terrain.obstacleDistFromTxKm = 1000
    /\ args.distKm = 1000
    /\ result = 0

\* C13: fresnelClearance returns a value in [0, 1] for every obstacle
\* geometry, however far the obstacle is above or below the line of sight,
\* and fresnelClearanceFraction of every budget is in [0, 1].
C13_ClearanceInUnitInterval ==
    /\ IsClearance => (result >= 0 /\ result <= 1000)
    /\ IsBudget => (result.fresnelClearanceFraction >= 0
                    /\ result.fresnelClearanceFraction <= 1000)

\* C13 witness: an obstacle on the path 1 km below the terminals, where
\* clearance / r1 + 1 is far above 1 and the function returns 1.0.
C13_Witness ==
    /\ IsClearance
    /\ HasObstacleFields(args.terrain)
    /\ ObstacleOnPath(args.distKm, args.terrain)
    /\ args.terrain.obstaclePeakElevM = -1000000
    /\ result = 1000

\* C14: txGainDbi is 0 without fromEquip and fromEquip's antenna gain with
\* it; rxGainDbi and rxSensitivityDbm are 0 and -110 without toEquip and
\* toEquip's antenna gain and sensitivity with it; the two sides do not
\* influence each other.
C14_EquipmentDefaults ==
    IsBudget =>
        /\ result.txGainDbi =
              IF args.fromEquip = Undefined THEN 0
              ELSE args.fromEquip[1].antennaGainDbi
        /\ result.rxGainDbi =
              IF args.toEquip = Undefined THEN 0
              ELSE args.toEquip[1].antennaGainDbi
        /\ result.rxSensitivityDbm =
              IF args.toEquip = Undefined THEN -110000
              ELSE args.toEquip[1].rxSensitivityDbm

\* C14 witness: a transmitter with a 10 dBi antenna and no receiver
\* equipment: tx gain 10, rx gain 0, sensitivity -110.
C14_Witness ==
    /\ IsBudget
    /\ args.fromEquip = Some(EquipA)
    /\ args.toEquip = Undefined
    /\ result.txGainDbi = 10000
    /\ result.rxGainDbi = 0
    /\ result.rxSensitivityDbm = -110000

\* The profile the caller's partial terrain stands for, field by field:
\* the supplied value, or FLAT / OPEN_LAND / TEMPERATE / NONE / 2 m / 2 m /
\* 0 m / 0 m / 0 / 0; the obstacle fields have no default.
ProfileOf(terrain) ==
    LET Get(f, dflt) == IF f \in DOMAIN terrain THEN terrain[f] ELSE dflt
    IN  [type |-> Get("type", "FLAT"),
         groundType |-> Get("groundType", "OPEN_LAND"),
         climateZone |-> Get("climateZone", "TEMPERATE"),
         vegetation |-> Get("vegetation", "NONE"),
         antennaHeightTxM |-> Get("antennaHeightTxM", 2000),
         antennaHeightRxM |-> Get("antennaHeightRxM", 2000),
         elevationTxM |-> Get("elevationTxM", 0),
         elevationRxM |-> Get("elevationRxM", 0),
         rainRateMmH |-> Get("rainRateMmH", 0),
         liquidWaterContentGm3 |-> Get("liquidWaterContentGm3", 0)]
        @@ [f \in (DOMAIN terrain)
                  \cap {"obstaclePeakElevM", "obstacleDistFromTxKm"} |->
               terrain[f]]

IsRain == op = "rainAttenuation"

\* The fields of an ordinary LinkBudget (ItuLinkBudget).
LinkBudgetFields ==
    {"txPowerDbm", "txGainDbi", "rxGainDbi", "fsplDb", "terrainLossDb",
     "atmosphericLossDb", "receivedPowerDbm", "rxSensitivityDbm",
     "linkMarginDb", "distanceKm", "feasible", "model", "diffractionLossDb",
     "rainAttenuationDb", "cloudFogAttenuationDb", "gasAbsorptionDb",
     "clutterLossDb", "fresnelClearanceFraction", "connectionQuality"}

\* The budget call in progress was given a negative rain rate.
NegativeRainCall ==
    /\ IsBudget
    /\ "rainRateMmH" \in DOMAIN args.terrain
    /\ args.terrain.rainRateMmH < 0

\* Equipment whose frequency range is inverted.
Inverted(equip) == equip # Undefined /\ equip[1].freqMin > equip[1].freqMax

InvertedRangeCall == IsBudget /\ (Inverted(args.fromEquip) \/ Inverted(args.toEquip))

\* The same equipment with a well-ordered frequency range.
WithValidRange(equip) ==
    IF equip = Undefined THEN Undefined
    ELSE Some([equip[1] EXCEPT !.freqMin = 30, !.freqMax = 3000])

\* C16 (as claimed): a negative rain rate or equipment with an inverted
\* frequency range makes the engine return a structured failure, not an
\* ordinary LinkBudget or loss value.
C16_ContractViolationFails ==
    /\ (NegativeRainCall \/ InvertedRangeCall)
          => DOMAIN result # LinkBudgetFields
    /\ (IsRain /\ args.rainRateMmH < 0) => result \notin Int

\* C16 (amended): the engine has no failure result. A negative rain rate
\* counts as no rain: rainAttenuation returns 0 and calcItuLinkBudget
\* returns the ordinary budget it returns for rain rate 0. Equipment with
\* an inverted frequency range is used like any other: the budget is the
\* ordinary one for the same gain and sensitivity, the range is not read.
C16_ContractViolationsAccepted ==
    /\ (IsRain /\ args.rainRateMmH < 0) => result = 0
    /\ NegativeRainCall =>
          /\ DOMAIN result = LinkBudgetFields
          /\ result.rainAttenuationDb = 0
          /\ result = BudgetWithTerrain([args.terrain EXCEPT !.rainRateMmH = 0])
    /\ InvertedRangeCall =>
          /\ DOMAIN result = LinkBudgetFields
          /\ result = calcItuLinkBudget(args.from, args.to, args.link,
                                        WithValidRange(args.fromEquip),
                                        WithValidRange(args.toEquip),
                                        args.terrain, args.forceModel)

\* C16 witness: a 15 GHz budget over a real path with rain rate -5 mm/h:
\* an ordinary budget with the cloud loss it would have without rain.
C16_Witness ==
    /\ NegativeRainCall
    /\ CallFreq = 15000
    /\ CallDist > 0
    /\ Inverted(args.toEquip)
    /\ result.rainAttenuationDb = 0
    /\ result.cloudFogAttenuationDb > 0

IsThermalNoise == op = "thermalNoise"

\* The bandwidth the quality of the call in progress was computed for.
QualityBandwidth ==
    IF IsBudget THEN args.link.bandwidthKhz ELSE args.bandwidthKhz

\* The received power the quality of the call in progress was computed for.
QualityReceived ==
    IF IsBudget THEN result.receivedPowerDbm ELSE args.receivedPowerDbm

\* C17 (as claimed): thermalNoise clamps its bandwidth argument to at
\* least 1 kHz, so thermalNoise(bw) for bw <= 1 equals thermalNoise(1)
\* (-138 dBm), and the SNR of connectionQuality is finite for every
\* bandwidth.
C17_ThermalNoiseClamps ==
    /\ (IsThermalNoise /\ args.bandwidthKhz <= 1) => result = Finite(-138000)
    /\ (IsQuality \/ IsBudget) => Quality.snrDb.kind = "finite"

\* C17 (amended): connectionQuality clamps the bandwidth to at least 1 kHz
\* before it calls thermalNoise, so its SNR is finite for every bandwidth
\* and for a bandwidth <= 1 is the received power + 138 dB; thermalNoise
\* itself does not clamp: it is -138 dBm for 1 kHz, -Infinity for 0 and
\* NaN for a negative bandwidth.
C17_QualityClampsBandwidth ==
    /\ (IsQuality \/ IsBudget) =>
          /\ Quality.snrDb.kind = "finite"
          /\ QualityBandwidth <= 1 =>
                Quality.snrDb = Finite(QualityReceived + 138000)
    /\ IsThermalNoise =>
          /\ args.bandwidthKhz = 1 => result = Finite(-138000)
          /\ args.bandwidthKhz = 0 => result.kind = "-Infinity"
          /\ args.bandwidthKhz < 0 => result.kind = "NaN"

\* C17 witness: a budget for a link of bandwidth 0 with a finite SNR.
C17_Witness ==
    /\ IsBudget
    /\ args.link.bandwidthKhz = 0
    /\ result.connectionQuality.snrDb.kind = "finite"

\* The call in progress is a direct call of one of the six loss functions.
IsLossCall ==
    op \in {"fspl", "gasAbsorption", "rainAttenuation", "cloudFogAttenuation",
            "okumuraHataLoss", "ituP1546Loss"}

\* C18: fspl, gasAbsorption, rainAttenuation, cloudFogAttenuation,
\* okumuraHataLoss and ituP1546Loss return 0 dB when the distance or the
\* frequency argument is zero or negative, and the budget of coincident
\* endpoints reports a base loss of 0 under every model.
C18_NonPositiveArgumentGivesZero ==
    /\ (IsLossCall /\ (args.distKm <= 0 \/ args.freqMhz <= 0)) => result = 0
    /\ (IsBudget /\ args.from = args.to) => result.fsplDb = 0

\* The budget of the call in progress with the transmit power replaced.
BudgetWithPower(p) ==
    calcItuLinkBudget(args.from, args.to, [args.link EXCEPT !.txPowerW = p],
                      args.fromEquip, args.toEquip, args.terrain,
                      args.forceModel)

\* C19: two budgets that differ only in txPowerW (> 0) agree on model,
\* distance, base loss, diffraction, gas, rain, cloud/fog and clutter
\* losses, gains, sensitivity and Fresnel fraction; received power and link
\* margin differ by the difference of the two txPowerDbm values, which is
\* 20 dB between 1 W and 100 W.
C19_PowerShiftsOnlyLevel ==
    IsBudget =>
        \A p \in TxPowers :
            LET other == BudgetWithPower(p)
                delta == other.txPowerDbm - result.txPowerDbm
            IN  /\ other.model = result.model
                /\ other.distanceKm = result.distanceKm
                /\ other.fsplDb = result.fsplDb
                /\ other.diffractionLossDb = result.diffractionLossDb
                /\ other.gasAbsorptionDb = result.gasAbsorptionDb
                /\ other.rainAttenuationDb = result.rainAttenuationDb
                /\ other.cloudFogAttenuationDb = result.cloudFogAttenuationDb
                /\ other.clutterLossDb = result.clutterLossDb
                /\ other.txGainDbi = result.txGainDbi
                /\ other.rxGainDbi = result.rxGainDbi
                /\ other.rxSensitivityDbm = result.rxSensitivityDbm
                /\ other.fresnelClearanceFraction =
                      result.fresnelClearanceFraction
                /\ other.receivedPowerDbm - result.receivedPowerDbm = delta
                /\ other.linkMarginDb - result.linkMarginDb = delta
                /\ (args.link.txPowerW = 1000 /\ p = 100000) =>
                      other.linkMarginDb - result.linkMarginDb = 20000

\* C19 witness: a 1 W budget with rain, cloud, gas and clutter losses whose
\* 100 W counterpart has 20 dB more margin.
C19_Witness ==
    /\ IsBudget
    /\ args.link.txPowerW = 1000
    /\ result.rainAttenuationDb > 0
    /\ result.clutterLossDb > 0
    /\ BudgetWithPower(100000).linkMarginDb = result.linkMarginDb + 20000

\* C20: with everything else fixed, a higher transmit power gives a
\* strictly larger linkMarginDb and a score that is not lower; and the
\* score of connectionQuality is non-decreasing in linkMarginDb, also
\* from a negative margin (capped) to a margin of 0 or more (not capped).
C20_ScoreMonotoneInMargin ==
    /\ IsBudget =>
          \A p \in TxPowers :
              p > args.link.txPowerW =>
                  LET other == BudgetWithPower(p)
                  IN  /\ other.linkMarginDb > result.linkMarginDb
                      /\ other.connectionQuality.score
                            >= result.connectionQuality.score
    /\ IsQuality =>
          \A m \in Margins :
              m > args.linkMarginDb =>
                  connectionQuality([args EXCEPT !.linkMarginDb = m]).score
                      >= result.score

\* C20 witness: a quality call with a small negative margin whose score is
\* held down by the cap, while the same link at margin 0 scores more.
C20_Witness ==
    /\ IsQuality
    /\ args.linkMarginDb = -250
    /\ result.score = 19
    /\ connectionQuality([args EXCEPT !.linkMarginDb = 0]).score > 19

\* ------------------------------------------------------------------------
\* C21..C30
\* ------------------------------------------------------------------------

IsKnifeEdge == op = "knifeEdgeDiffraction"

\* C23: knifeEdgeDiffraction(nu) is 0 for nu < -1 and, for nu >= 0, not
\* larger than knifeEdgeDiffraction(nu2) for any nu2 >= nu, the piece
\* boundaries at nu = 1 and nu = 2.4 included.
C23_KnifeEdgeMonotone ==
    IsKnifeEdge =>
        /\ args.nu < -1000 => result = 0
        /\ args.nu >= 0 =>
              \A nu2 \in NuValues :
                  nu2 >= args.nu => knifeEdgeDiffraction(nu2) >= result

\* C24: the base loss is that of the reported model only: okumuraHataLoss
\* for OKUMURA_HATA, ituP1546Loss for ITU_P1546, fspl for FSPL, ITU_P526
\* and ITU_P452; a forced ITU_P452 is reported back as ITU_P452 with the
\* free-space base loss.
C24_BaseLossOfReportedModel ==
    IsBudget =>
        /\ result.model = "OKUMURA_HATA" =>
              result.fsplDb =
                  okumuraHataLoss(CallDist, CallFreq,
                                  CallTerrain.antennaHeightTxM,
                                  CallTerrain.antennaHeightRxM,
                                  CallTerrain.groundType)
        /\ result.model = "ITU_P1546" =>
              result.fsplDb = ituP1546Loss(CallDist, CallFreq, CallTerrain)
        /\ result.model \in {"FSPL", "ITU_P526", "ITU_P452"} =>
              result.fsplDb = fspl(CallDist, CallFreq)
        /\ args.forceModel = Some("ITU_P452") =>
              /\ DOMAIN result = LinkBudgetFields
              /\ result.model = "ITU_P452"
              /\ result.fsplDb = fspl(CallDist, CallFreq)

\* C24 witness: ITU_P452 forced on a 400 MHz path where the P.1546
\* estimate and free space differ; the budget reports free space.
C24_Witness ==
    /\ IsBudget
    /\ args.forceModel = Some("ITU_P452")
    /\ CallFreq = 400
    /\ CallDist > 0
    /\ result.model = "ITU_P452"
    /\ result.fsplDb = fspl(CallDist, CallFreq)
    /\ result.fsplDb # ituP1546Loss(CallDist, CallFreq, CallTerrain)

IsP1546 == op = "ituP1546Loss"

\* C25: ituP1546Loss is fspl(d, f) for f < 30 or f > 3000 MHz; otherwise
\* fspl(1 km, f) + 10 n log10(max(d, 0.01 km)) - 20 log10(max(h, 1 m) / 10)
\* with n = 3.0 (FLAT, f < 300), 3.5 (not FLAT, f < 300, and FLAT,
\* f >= 300) and 4.0 (not FLAT, f >= 300).
C25_P1546ExponentTable ==
    IsP1546 =>
        LET f    == args.freqMhz
            flat == args.terrain.type = "FLAT"
            n10  == CASE flat /\ f < 300   -> 30
                      [] ~flat /\ f < 300  -> 35
                      [] flat /\ f >= 300  -> 35
                      [] ~flat /\ f >= 300 -> 40
            d    == IF args.distKm < 10 THEN 10 ELSE args.distKm
            h    == IF args.terrain.antennaHeightTxM < 1000 THEN 1000
                    ELSE args.terrain.antennaHeightTxM
        IN  result =
               IF f < 30 \/ f > 3000 THEN fspl(args.distKm, f)
               ELSE fspl(1000, f) + n10 * MathLog10(d, 1000)
                    - 20 * MathLog10(h, 10000)

\* C25 witness: 300 MHz over hilly terrain with a 0.5 m antenna at
\* distance 0: exponent 4.0, distance floored to 0.01 km, height to 1 m.
C25_Witness ==
    /\ IsP1546
    /\ args.freqMhz = 300
    /\ args.terrain.type = "HILLY"
    /\ args.terrain.antennaHeightTxM = 500
    /\ args.distKm = 0
    /\ result = fspl(1000, 300) + 40 * MathLog10(10, 1000)
                - 20 * MathLog10(1000, 10000)

\* The model of the budget call in progress was selected automatically.
AutoSelected ==
    IsBudget /\ (args.forceModel = Undefined \/ args.forceModel = Some("AUTO"))

\* okumuraHataLoss computes its own formula: d >= 0.1 km, 150 <= f <= 1500.
InHataGuard(distKm, freqMhz) ==
    distKm >= 100 /\ freqMhz >= 150 /\ freqMhz <= 1500

\* C26: whenever automatic selection reports OKUMURA_HATA the inputs lie
\* inside okumuraHataLoss's applicability guard (d >= 0.1 km and
\* 150 <= f <= 1500 MHz), so the clutter loss is never zeroed while the
\* base loss is the free-space fallback.
C26_HataSelectedInsideGuard ==
    /\ (IsSelect /\ result = "OKUMURA_HATA") =>
          InHataGuard(args.distKm, args.freqMhz)
    /\ (AutoSelected /\ result.model = "OKUMURA_HATA") =>
          /\ InHataGuard(CallDist, CallFreq)
          /\ ~(result.clutterLossDb = 0
               /\ clutterLoss(CallFreq, CallTerrain.groundType) > 0
               /\ result.fsplDb = fspl(CallDist, CallFreq))

\* C30: the backward-compatible fields agree with the ITU fields: fsplDb
\* is the base loss of the reported model, terrainLossDb is clutterLossDb,
\* atmosphericLossDb is gas + rain + cloud/fog, and so receivedPowerDbm =
\* txPowerDbm + txGainDbi + rxGainDbi - fsplDb - terrainLossDb -
\* atmosphericLossDb - diffractionLossDb.
C30_LegacyFieldsAgree ==
    IsBudget =>
        /\ result.fsplDb =
              BaseLoss(result.model, CallDist, CallFreq, CallTerrain)
        /\ result.terrainLossDb = result.clutterLossDb
        /\ result.atmosphericLossDb =
              result.gasAbsorptionDb + result.rainAttenuationDb
              + result.cloudFogAttenuationDb
        /\ result.receivedPowerDbm =
              result.txPowerDbm + result.txGainDbi + result.rxGainDbi
              - result.fsplDb - result.terrainLossDb
              - result.atmosphericLossDb - result.diffractionLossDb

\* C30 witness: a diffraction budget with clutter and atmospheric loss, so
\* that all four legacy terms are non-zero.
C30_Witness ==
    /\ IsBudget
    /\ result.model = "ITU_P526"
    /\ result.diffractionLossDb > 0
    /\ result.terrainLossDb > 0
    /\ result.atmosphericLossDb > 0
    /\ result.fsplDb > 0

\* ---- the stores ---------------------------------------------------------

\* The equipment a link names at one of its endpoint nodes: that of the
\* node's vehicle, none for a node without a vehicle.
EndpointEquipment(us, node, equipmentId) ==
    IF node.vehicleId = Undefined \/ equipmentId = Undefined THEN Undefined
    ELSE LET carriers == {v \in {AllVehicles(us)[k] : k \in DOMAIN AllVehicles(us)} :
                             v.id = node.vehicleId[1]}
         IN  IF carriers = {} THEN Undefined
             ELSE LET fitted == (CHOOSE v \in carriers : TRUE).equipment
                      named  == {k \in DOMAIN fitted : fitted[k].id = equipmentId[1]}
                  IN  IF named = {} THEN Undefined
                      ELSE Some(fitted[CHOOSE k \in named : \A j \in named : k <= j])

\* Both endpoints of the link are among the nodes ns.
EndpointsExist(l, ns) == {l.fromNodeId, l.toNodeId} \subseteq Ids(ns)

NodeAt(ns, id) == ns[CHOOSE i \in DOMAIN ns : ns[i].id = id]

\* The link carries the budget of its endpoints' positions in ns, of its own
\* parameters and of the equipment fitted in us.
BudgetIsCurrent(l, ns, us) ==
    l.linkBudget =
        Some(calcLinkBudget(NodeAt(ns, l.fromNodeId).position,
                            NodeAt(ns, l.toNodeId).position, l,
                            EndpointEquipment(us, NodeAt(ns, l.fromNodeId), l.equipmentFromId),
                            EndpointEquipment(us, NodeAt(ns, l.toNodeId), l.equipmentToId)))

\* The link the last operation created or updated, or one with the moved
\* node as an endpoint.
Affected(l) ==
    \/ op \in {"addLink", "updateLink"} /\ l.id = args.id
    \/ op = "moveNode" /\ args.nodeId \in {l.fromNodeId, l.toNodeId}

\* C22: after addLink, updateLink or moveNode, in the TypeScript and in the
\* C# store, every affected link whose two endpoint nodes exist carries the
\* budget of the current endpoint positions, link parameters and equipment.
C22_BudgetRecomputed ==
    /\ \A i \in DOMAIN links :
          Affected(links[i]) /\ EndpointsExist(links[i], nodes)
              => BudgetIsCurrent(links[i], nodes, units)
    /\ \A i \in DOMAIN csLinks :
          Affected(csLinks[i]) /\ EndpointsExist(csLinks[i], Nodes(csUnits))
              => BudgetIsCurrent(csLinks[i], Nodes(csUnits), csUnits)

\* A node was moved north and a link to it now spans the new distance.
C22_Witness ==
    /\ op = "moveNode"
    /\ \E i \in DOMAIN links :
          /\ Affected(links[i])
          /\ EndpointsExist(links[i], nodes)
          /\ links[i].linkBudget # Undefined
          /\ links[i].linkBudget[1].distanceKm = haversineKm(Origin, North)
          /\ csLinks[i] = links[i]

\* C27: once the initial recalcAllBudgets has run, every link of the
\* TypeScript store whose two endpoints are current nodes has a budget whose
\* distanceKm is the haversine distance between those nodes' current
\* positions; no operation leaves a stale budget behind.
C27_NoStaleBudget ==
    started =>
        \A i \in DOMAIN links :
            EndpointsExist(links[i], nodes) =>
                /\ links[i].linkBudget # Undefined
                /\ links[i].linkBudget[1].distanceKm =
                       haversineKm(NodeAt(nodes, links[i].fromNodeId).position,
                                   NodeAt(nodes, links[i].toNodeId).position)

\* C28: the nodes of the TypeScript store are buildNodesFromUnits(units) in
\* every state, a change made through updateNode included.
C28_NodesDerivedFromUnits == nodes = buildNodesFromUnits(units)

\* C29: started from the same sample data and driven by the same operations,
\* the C# store holds the same units, derived nodes, links and budgets as
\* the TypeScript store after every step, a moveNode of an unknown id
\* included.
C29_StoresAgree ==
    started =>
        /\ csUnits = units
        /\ Nodes(csUnits) = nodes
        /\ csLinks = links

====
